---- MODULE Spec2Model ----
(***************************************************************************)
(* Community registration: the provisioning workflow of                    *)
(* process_registration.py (process_excel_file and the helpers it calls),  *)
(* run against a workbook, a data backend (AppSync/GraphQL) and an         *)
(* identity backend (Cognito).                                             *)
(***************************************************************************)
EXTENDS Integers, Sequences, FiniteSets, TLC

(* ------------------------------ bounds --------------------------------- *)
\* rows of the Users sheet
MaxMembers == 2
\* backend calls / operator answers that go wrong in one behaviour
MaxFaults == 2
\* runs of the tool on the same workbook, one after the other
NumRuns == 2
\* how often a function applied on its own is called again
MaxCalls == 3
\* characters of a community id taken as text
MaxIdLen == 2

\* characters of a community name tried with the admin email
MaxNameLen == 2

Runs == 1..NumRuns

(* --------------------------- text and emails --------------------------- *)
\* characters community names are made of
IsAlnum(c) == c \in {"A", "a", "B", "b"}

Lower(c) == IF c = "A" THEN "a" ELSE IF c = "B" THEN "b" ELSE c

RECURSIVE Sanitize(_)
\* ''.join(c.lower() if c.isalnum() else '' for c in community_name)
Sanitize(s) ==
    IF s = << >> THEN << >>
    ELSE (IF IsAlnum(Head(s)) THEN << Lower(Head(s)) >> ELSE << >>)
         \o Sanitize(Tail(s))

\* an email address; the empty local part is a missing email
Mail(local, domain) == [local |-> local, domain |-> domain]

NoEmail == Mail(<< >>, "")

\* f"{sanitized_name}@foresightcares.com", 'community' when nothing is left
AdminEmail(name) ==
    Mail(IF Sanitize(name) = << >>
            THEN <<"c", "o", "m", "m", "u", "n", "i", "t", "y">>
            ELSE Sanitize(name),
         "foresightcares.com")

\* the email of the i-th row of the Users sheet, when it has one
MemberEmail(i) == Mail(<<"m", ToString(i)>>, "x.com")

\* group_name = f"community-{community_id}"
GroupName(id) == <<"community-", id>>

\* "community-"
CommunityPrefix == <<"c", "o", "m", "m", "u", "n", "i", "t", "y", "-">>

\* the group name that keeps only the first character of the id
GroupNameText_FirstCharOnly(id) == CommunityPrefix \o SubSeq(id, 1, 1)

\* get_or_create_cognito_group: f"community-{community_id}", character by
\* character, of an id given as text
GroupNameText(id) == CommunityPrefix \o id

\* check_community_group_exists: f"community-{community_id}" of the id of
\* the community found by its email
GuardGroupNameText(id) == CommunityPrefix \o id

RECURSIVE LowerSeq(_)
LowerSeq(s) == IF s = << >> THEN << >> ELSE << Lower(Head(s)) >> \o LowerSeq(Tail(s))

\* Python's  a in b  on strings
IsSubstring(a, b) ==
    \E i \in 0..(Len(b) - Len(a)) : SubSeq(b, i + 1, i + Len(a)) = a

\* the text of an email as it is matched against a description
MailText(e) == e.local \o <<"@">> \o <<e.domain>>

\* Description=f"Group for community: {community_name} (ID: {community_id})"
GroupDescription(name, id) ==
    <<"G", "r", "o", "u", "p", " ", "f", "o", "r", " ",
      "c", "o", "m", "m", "u", "n", "i", "t", "y", ":", " ">>
    \o name \o <<" ", "(", "I", "D", ":", " ", ToString(id), ")">>

(* ------------------------------- state --------------------------------- *)
VARIABLES
    file,       \* the workbook: Community Info rows, Users rows, Admin Credentials sheet
    tenants,    \* data backend: the communities
    members,    \* data backend: the caretakers
    accounts,   \* identity backend: the users, by username (email)
    groups,     \* identity backend: the groups, name -> description
    pc,         \* per run: where process_excel_file is
    communities,\* per run: read_community_data(file_path)
    caretakers, \* per run: read_caretaker_data(file_path)
    community_id,       \* per run: the id createCommunity returned (0 = None)
    cognito_group_name, \* per run: the group name (<< >> = None)
    idx,        \* per run: the caretakers already looped over
    created_caretakers, \* per run: len(created_caretakers)
    log,        \* per run: the calls issued to the backends and the workbook, in order
    exit_code,  \* per run: the process exit status (-1 while running)
    reason,     \* per run: why the run was aborted ("" when it was not)
    input,      \* per run: the workbook as the run found it
    summary,    \* per run: the dictionary process_excel_file returns
    faults,     \* calls and answers that went wrong so far
    probe       \* arguments and first result of a function applied on its own

vars == <<file, tenants, members, accounts, groups, pc, communities, caretakers,
          community_id, cognito_group_name, idx, created_caretakers, log,
          exit_code, reason, input, summary, faults, probe>>

backend == <<tenants, members, accounts, groups>>
locals == <<communities, caretakers, community_id, cognito_group_name, idx,
            created_caretakers, summary>>

(* ------------------------------ call log ------------------------------- *)
\* res: "ok", or the answer "notfound" / "exists" / "challenge" /
\* "new_password_required", or "error"
Call(op, email, id, res) == [op |-> op, email |-> email, id |-> id, res |-> res]

\* operations of the data backend client
DataOps == {"createTenant", "createMember", "findMember", "listTenants"}

\* operations of the identity backend client
IdentityOps == {"initiateAuth", "respondToChallenge", "getGroup", "createGroup",
                "adminCreateUser", "adminUpdateUserAttributes",
                "adminSetUserPassword", "adminAddUserToGroup", "adminGetUser",
                "listGroups"}

\* operations on the workbook
WorkbookOps == {"hasProcessedMarker", "readRecords", "writeBackTenantId",
                "writeBackAdminCredentials"}

\* the calls that create or change something in a backend
MutatingOps == {"createTenant", "createGroup", "createMember", "adminCreateUser",
                "adminUpdateUserAttributes", "adminSetUserPassword",
                "adminAddUserToGroup"}

Ops(l) == {l[i].op : i \in DOMAIN l}

CountOp(l, op) == Cardinality({i \in DOMAIN l : l[i].op = op})

(* ----------------------- identity backend client ----------------------- *)
\* Cognito's admin_create_user: the user starts with a temporary password
NewAccount(first, last, verified) ==
    [first |-> first, last |-> last, verified |-> verified,
     pwd |-> [state |-> "temporary", value |-> ""], groups |-> {}]

\* add_user_to_cognito returning True when the user could not be added to the group
AddUserToCognito_SwallowsError(acc, grps, email, first, last, g, f) ==
    IF f = 1
    THEN [accounts |-> acc, ok |-> FALSE,
          calls |-> <<Call("adminCreateUser", email, 0, "error")>>]
    ELSE IF email \notin DOMAIN acc
    THEN LET a1 == (email :> NewAccount(first, last, FALSE)) @@ acc
             addOk == f # 2 /\ g \in DOMAIN grps
             a2 == IF addOk THEN [a1 EXCEPT ![email].groups = @ \cup {g}] ELSE a1
         IN  [accounts |-> a2, ok |-> TRUE,
              calls |-> <<Call("adminCreateUser", email, 0, "ok"),
                          Call("adminAddUserToGroup", email, g[2],
                               IF addOk THEN "ok" ELSE "error")>>]
    ELSE IF f = 2
         THEN [accounts |-> acc, ok |-> FALSE,
               calls |-> <<Call("adminCreateUser", email, 0, "exists"),
                           Call("adminUpdateUserAttributes", email, 0, "error")>>]
         ELSE LET a1 == [acc EXCEPT ![email].verified = FALSE,
                                    ![email].first = first,
                                    ![email].last = last]
                  addOk == f # 3 /\ g \in DOMAIN grps
                  a2 == IF addOk THEN [a1 EXCEPT ![email].groups = @ \cup {g}] ELSE a1
              IN  [accounts |-> a2, ok |-> TRUE,
                   calls |-> <<Call("adminCreateUser", email, 0, "exists"),
                               Call("adminUpdateUserAttributes", email, 0, "ok"),
                               Call("adminAddUserToGroup", email, g[2],
                                    IF addOk THEN "ok" ELSE "error")>>]

\* add_user_to_cognito marking the email verified when the user already exists
AddUserToCognito_VerifiesOnUpdate(acc, grps, email, first, last, g, f) ==
    IF f = 1
    THEN [accounts |-> acc, ok |-> FALSE,
          calls |-> <<Call("adminCreateUser", email, 0, "error")>>]
    ELSE IF email \notin DOMAIN acc
    THEN LET a1 == (email :> NewAccount(first, last, FALSE)) @@ acc
             addOk == f # 2 /\ g \in DOMAIN grps
             a2 == IF addOk THEN [a1 EXCEPT ![email].groups = @ \cup {g}] ELSE a1
         IN  [accounts |-> a2, ok |-> addOk,
              calls |-> <<Call("adminCreateUser", email, 0, "ok"),
                          Call("adminAddUserToGroup", email, g[2],
                               IF addOk THEN "ok" ELSE "error")>>]
    ELSE IF f = 2
         THEN [accounts |-> acc, ok |-> FALSE,
               calls |-> <<Call("adminCreateUser", email, 0, "exists"),
                           Call("adminUpdateUserAttributes", email, 0, "error")>>]
         ELSE LET a1 == [acc EXCEPT ![email].verified = TRUE,
                                    ![email].first = first,
                                    ![email].last = last]
                  addOk == f # 3 /\ g \in DOMAIN grps
                  a2 == IF addOk THEN [a1 EXCEPT ![email].groups = @ \cup {g}] ELSE a1
              IN  [accounts |-> a2, ok |-> addOk,
                   calls |-> <<Call("adminCreateUser", email, 0, "exists"),
                               Call("adminUpdateUserAttributes", email, 0, "ok"),
                               Call("adminAddUserToGroup", email, g[2],
                                    IF addOk THEN "ok" ELSE "error")>>]

\* add_user_to_cognito deleting the user it created when the group step fails
AddUserToCognito_RollsBack(acc, grps, email, first, last, g, f) ==
    IF f = 1
    THEN [accounts |-> acc, ok |-> FALSE,
          calls |-> <<Call("adminCreateUser", email, 0, "error")>>]
    ELSE IF email \notin DOMAIN acc
    THEN LET a1 == (email :> NewAccount(first, last, FALSE)) @@ acc
             addOk == f # 2 /\ g \in DOMAIN grps
             a2 == IF addOk THEN [a1 EXCEPT ![email].groups = @ \cup {g}] ELSE acc
         IN  [accounts |-> a2, ok |-> addOk,
              calls |-> <<Call("adminCreateUser", email, 0, "ok"),
                          Call("adminAddUserToGroup", email, g[2],
                               IF addOk THEN "ok" ELSE "error")>>]
    ELSE IF f = 2
         THEN [accounts |-> acc, ok |-> FALSE,
               calls |-> <<Call("adminCreateUser", email, 0, "exists"),
                           Call("adminUpdateUserAttributes", email, 0, "error")>>]
         ELSE LET a1 == [acc EXCEPT ![email].verified = FALSE,
                                    ![email].first = first,
                                    ![email].last = last]
                  addOk == f # 3 /\ g \in DOMAIN grps
                  a2 == IF addOk THEN [a1 EXCEPT ![email].groups = @ \cup {g}] ELSE a1
              IN  [accounts |-> a2, ok |-> addOk,
                   calls |-> <<Call("adminCreateUser", email, 0, "exists"),
                               Call("adminUpdateUserAttributes", email, 0, "ok"),
                               Call("adminAddUserToGroup", email, g[2],
                                    IF addOk THEN "ok" ELSE "error")>>]

\* add_user_to_cognito creating the user verified and with a permanent password
AddUserToCognito_SetsPassword(acc, grps, email, first, last, g, f) ==
    IF f = 1
    THEN [accounts |-> acc, ok |-> FALSE,
          calls |-> <<Call("adminCreateUser", email, 0, "error")>>]
    ELSE IF email \notin DOMAIN acc
    THEN LET a0 == (email :> NewAccount(first, last, TRUE)) @@ acc
             a1 == [a0 EXCEPT ![email].pwd =
                        [state |-> "permanent", value |-> "generated"]]
             addOk == f # 2 /\ g \in DOMAIN grps
             a2 == IF addOk THEN [a1 EXCEPT ![email].groups = @ \cup {g}] ELSE a1
         IN  [accounts |-> a2, ok |-> addOk,
              calls |-> <<Call("adminCreateUser", email, 0, "ok"),
                          Call("adminAddUserToGroup", email, g[2],
                               IF addOk THEN "ok" ELSE "error")>>]
    ELSE IF f = 2
         THEN [accounts |-> acc, ok |-> FALSE,
               calls |-> <<Call("adminCreateUser", email, 0, "exists"),
                           Call("adminUpdateUserAttributes", email, 0, "error")>>]
         ELSE LET a1 == [acc EXCEPT ![email].verified = FALSE,
                                    ![email].first = first,
                                    ![email].last = last]
                  addOk == f # 3 /\ g \in DOMAIN grps
                  a2 == IF addOk THEN [a1 EXCEPT ![email].groups = @ \cup {g}] ELSE a1
              IN  [accounts |-> a2, ok |-> addOk,
                   calls |-> <<Call("adminCreateUser", email, 0, "exists"),
                               Call("adminUpdateUserAttributes", email, 0, "ok"),
                               Call("adminAddUserToGroup", email, g[2],
                                    IF addOk THEN "ok" ELSE "error")>>]

\* add_user_to_cognito; f is the call that fails with an error (0: none)
AddUserToCognito(acc, grps, email, first, last, g, f) ==
    IF f = 1
    THEN [accounts |-> acc, ok |-> FALSE,
          calls |-> <<Call("adminCreateUser", email, 0, "error")>>]
    ELSE IF email \notin DOMAIN acc
    THEN LET a1 == (email :> NewAccount(first, last, FALSE)) @@ acc
             addOk == f # 2 /\ g \in DOMAIN grps
             a2 == IF addOk THEN [a1 EXCEPT ![email].groups = @ \cup {g}] ELSE a1
         IN  [accounts |-> a2, ok |-> addOk,
              calls |-> <<Call("adminCreateUser", email, 0, "ok"),
                          Call("adminAddUserToGroup", email, g[2],
                               IF addOk THEN "ok" ELSE "error")>>]
    ELSE \* UsernameExistsException
         IF f = 2
         THEN [accounts |-> acc, ok |-> FALSE,
               calls |-> <<Call("adminCreateUser", email, 0, "exists"),
                           Call("adminUpdateUserAttributes", email, 0, "error")>>]
         ELSE LET a1 == [acc EXCEPT ![email].verified = FALSE,
                                    ![email].first = first,
                                    ![email].last = last]
                  addOk == f # 3 /\ g \in DOMAIN grps
                  a2 == IF addOk THEN [a1 EXCEPT ![email].groups = @ \cup {g}] ELSE a1
              IN  [accounts |-> a2, ok |-> addOk,
                   calls |-> <<Call("adminCreateUser", email, 0, "exists"),
                               Call("adminUpdateUserAttributes", email, 0, "ok"),
                               Call("adminAddUserToGroup", email, g[2],
                                    IF addOk THEN "ok" ELSE "error")>>]

\* add_verified_user_to_cognito returning True when a call after the creation failed
AddVerifiedUserToCognito_ReturnsTrue(acc, grps, email, password, first, last, g, f) ==
    IF f = 1
    THEN [accounts |-> acc, ok |-> FALSE,
          calls |-> <<Call("adminCreateUser", email, 0, "error")>>]
    ELSE LET exists == email \in DOMAIN acc
             c1 == IF exists
                   THEN <<Call("adminCreateUser", email, 0, "exists"),
                          Call("adminUpdateUserAttributes", email, 0,
                               IF f = 2 THEN "error" ELSE "ok")>>
                   ELSE <<Call("adminCreateUser", email, 0, "ok")>>
             a1 == IF exists
                   THEN IF f = 2 THEN acc
                        ELSE [acc EXCEPT ![email].verified = TRUE,
                                         ![email].first = first,
                                         ![email].last = last]
                   ELSE (email :> NewAccount(first, last, TRUE)) @@ acc
             n == Len(c1)
         IN  IF exists /\ f = 2
             THEN [accounts |-> a1, ok |-> FALSE, calls |-> c1]
             ELSE IF f = n + 1
             THEN [accounts |-> a1, ok |-> TRUE,
                   calls |-> Append(c1, Call("adminSetUserPassword", email, 0, "error"))]
             ELSE LET a2 == [a1 EXCEPT ![email].pwd =
                                 [state |-> "permanent", value |-> password]]
                      addOk == f # n + 2 /\ g \in DOMAIN grps
                      a3 == IF addOk THEN [a2 EXCEPT ![email].groups = @ \cup {g}]
                            ELSE a2
                  IN  [accounts |-> a3, ok |-> TRUE,
                       calls |-> c1 \o <<Call("adminSetUserPassword", email, 0, "ok"),
                                         Call("adminAddUserToGroup", email, g[2],
                                              IF addOk THEN "ok" ELSE "error")>>]

\* add_verified_user_to_cognito; f is the call that fails with an error (0: none)
AddVerifiedUserToCognito(acc, grps, email, password, first, last, g, f) ==
    IF f = 1
    THEN [accounts |-> acc, ok |-> FALSE,
          calls |-> <<Call("adminCreateUser", email, 0, "error")>>]
    ELSE LET exists == email \in DOMAIN acc
             c1 == IF exists
                   THEN <<Call("adminCreateUser", email, 0, "exists"),
                          Call("adminUpdateUserAttributes", email, 0,
                               IF f = 2 THEN "error" ELSE "ok")>>
                   ELSE <<Call("adminCreateUser", email, 0, "ok")>>
             a1 == IF exists
                   THEN IF f = 2 THEN acc
                        ELSE [acc EXCEPT ![email].verified = TRUE,
                                         ![email].first = first,
                                         ![email].last = last]
                   ELSE (email :> NewAccount(first, last, TRUE)) @@ acc
             n == Len(c1)
         IN  IF exists /\ f = 2
             THEN [accounts |-> a1, ok |-> FALSE, calls |-> c1]
             ELSE IF f = n + 1
             THEN [accounts |-> a1, ok |-> FALSE,
                   calls |-> Append(c1, Call("adminSetUserPassword", email, 0, "error"))]
             ELSE LET a2 == [a1 EXCEPT ![email].pwd =
                                 [state |-> "permanent", value |-> password]]
                      addOk == f # n + 2 /\ g \in DOMAIN grps
                      a3 == IF addOk THEN [a2 EXCEPT ![email].groups = @ \cup {g}]
                            ELSE a2
                  IN  [accounts |-> a3, ok |-> addOk,
                       calls |-> c1 \o <<Call("adminSetUserPassword", email, 0, "ok"),
                                         Call("adminAddUserToGroup", email, g[2],
                                              IF addOk THEN "ok" ELSE "error")>>]

\* get_or_create_cognito_group that creates the group after a failed lookup too
GetOrCreateCognitoGroup_CreatesOnError(grps, id, name, f) ==
    LET g == GroupName(id)
    IN  IF f = 1
        THEN [groups |-> (g :> GroupDescription(name, id)) @@ grps,
              ok |-> TRUE, name |-> g,
              calls |-> <<Call("getGroup", NoEmail, id, "error"),
                          Call("createGroup", NoEmail, id, "ok")>>]
        ELSE IF g \in DOMAIN grps
        THEN [groups |-> grps, ok |-> TRUE, name |-> g,
              calls |-> <<Call("getGroup", NoEmail, id, "ok")>>]
        ELSE IF f = 2
        THEN [groups |-> grps, ok |-> FALSE, name |-> g,
              calls |-> <<Call("getGroup", NoEmail, id, "notfound"),
                          Call("createGroup", NoEmail, id, "error")>>]
        ELSE [groups |-> (g :> GroupDescription(name, id)) @@ grps,
              ok |-> TRUE, name |-> g,
              calls |-> <<Call("getGroup", NoEmail, id, "notfound"),
                          Call("createGroup", NoEmail, id, "ok")>>]

\* get_or_create_cognito_group; f is the call that fails with an error (0: none);
\* ok = FALSE is the exception it raises
GetOrCreateCognitoGroup(grps, id, name, f) ==
    LET g == GroupName(id)
    IN  IF f = 1
        THEN [groups |-> grps, ok |-> FALSE, name |-> g,
              calls |-> <<Call("getGroup", NoEmail, id, "error")>>]
        ELSE IF g \in DOMAIN grps
        THEN [groups |-> grps, ok |-> TRUE, name |-> g,
              calls |-> <<Call("getGroup", NoEmail, id, "ok")>>]
        ELSE IF f = 2
        THEN [groups |-> grps, ok |-> FALSE, name |-> g,
              calls |-> <<Call("getGroup", NoEmail, id, "notfound"),
                          Call("createGroup", NoEmail, id, "error")>>]
        ELSE [groups |-> (g :> GroupDescription(name, id)) @@ grps,
              ok |-> TRUE, name |-> g,
              calls |-> <<Call("getGroup", NoEmail, id, "notfound"),
                          Call("createGroup", NoEmail, id, "ok")>>]

(* ------------------------------- workbook ------------------------------ *)
\* read_caretaker_data without its filter on the required fields
ReadCaretakerData_NoFilter(f) == f.rows

\* read_caretaker_data: the rows that have a first name, a last name and an email
ReadCaretakerData(f) == SelectSeq(f.rows, LAMBDA r : r.email # NoEmail)

\* read_community_data: the rows that have a name, a phone number and an email
ReadCommunityData(f) == f.comms

\* check_excel_already_processed without its look at the CommunityId column
CheckExcelAlreadyProcessed_AdminSheetOnly(f) == f.admin # NoEmail

\* check_excel_already_processed
CheckExcelAlreadyProcessed(f) ==
    \/ f.admin # NoEmail
    \/ \E i \in DOMAIN f.rows : f.rows[i].cid # 0

\* update_excel_with_community_id: every row with a first name gets the id
UpdateExcelWithCommunityId(f, id) ==
    [f EXCEPT !.rows = [i \in DOMAIN f.rows |-> [f.rows[i] EXCEPT !.cid = id]]]

\* add_admin_credentials_to_excel
AddAdminCredentialsToExcel(f, email) == [f EXCEPT !.admin = email]

(* -------------------------------- guard -------------------------------- *)
\* the emails of the caretakers only
EmailsToCheck_CaretakersOnly(comms, cts) ==
    [i \in DOMAIN cts |-> cts[i].email]

\* emails_to_check with an admin email that keeps the case of the name
EmailsToCheck_KeepsCase(comms, cts) ==
    [i \in DOMAIN cts |-> cts[i].email]
    \o (IF comms # << >>
        THEN <<Mail(SelectSeq(comms[1].name, IsAlnum), "foresightcares.com")>>
        ELSE << >>)

\* emails_to_check: the caretakers' emails, then the admin email of communities[0]
EmailsToCheck(comms, cts) ==
    [i \in DOMAIN cts |-> cts[i].email]
    \o (IF comms # << >> THEN <<AdminEmail(comms[1].name)>> ELSE << >>)

\* check_users_exist_in_cognito answering from the first email only
CheckUsersExistInCognito_FirstOnly(acc, emails, F) ==
    LET es == SelectSeq(emails, LAMBDA e : e # NoEmail)
        found(i) == i \notin F /\ es[i] \in DOMAIN acc
    IN  [users_exist |-> es # << >> /\ found(1),
         calls |-> [i \in DOMAIN es |->
                      Call("adminGetUser", es[i], 0,
                           IF i \in F THEN "error"
                           ELSE IF es[i] \in DOMAIN acc THEN "ok" ELSE "notfound")]]

\* check_users_exist_in_cognito taking a lookup that failed for a user found
CheckUsersExistInCognito_ErrorTrips(acc, emails, F) ==
    LET es == SelectSeq(emails, LAMBDA e : e # NoEmail)
        found(i) == i \in F \/ es[i] \in DOMAIN acc
    IN  [users_exist |-> \E i \in DOMAIN es : found(i),
         calls |-> [i \in DOMAIN es |->
                      Call("adminGetUser", es[i], 0,
                           IF i \in F THEN "error"
                           ELSE IF es[i] \in DOMAIN acc THEN "ok" ELSE "notfound")]]

\* check_users_exist_in_cognito; F is the set of lookups that fail with an
\* error other than UserNotFoundException
CheckUsersExistInCognito(acc, emails, F) ==
    LET es == SelectSeq(emails, LAMBDA e : e # NoEmail)
        found(i) == i \notin F /\ es[i] \in DOMAIN acc
    IN  [users_exist |-> \E i \in DOMAIN es : found(i),
         calls |-> [i \in DOMAIN es |->
                      Call("adminGetUser", es[i], 0,
                           IF i \in F THEN "error"
                           ELSE IF es[i] \in DOMAIN acc THEN "ok" ELSE "notfound")]]

RECURSIVE SortedIds(_)
\* the ids of a set of communities, in the order the listing returns them
SortedIds(S) ==
    IF S = {} THEN << >>
    ELSE LET m == CHOOSE t \in S : \A u \in S : t.id <= u.id
         IN  <<m.id>> \o SortedIds(S \ {m})

RECURSIVE GroupScan(_, _, _)
\* the loop over the communities with the same email: get_group for each,
\* until one answers; Fg is the set of ids whose lookup fails with an error
GroupScan(ids, grps, Fg) ==
    IF ids = << >> THEN [found |-> FALSE, calls |-> << >>]
    ELSE LET id == Head(ids)
             hit == id \notin Fg /\ GroupName(id) \in DOMAIN grps
             c == Call("getGroup", NoEmail, id,
                       IF id \in Fg THEN "error"
                       ELSE IF hit THEN "ok" ELSE "notfound")
         IN  IF hit THEN [found |-> TRUE, calls |-> <<c>>]
             ELSE LET rest == GroupScan(Tail(ids), grps, Fg)
                  IN  [found |-> rest.found, calls |-> <<c>> \o rest.calls]

\* the description test that keeps the case of the letters
DescriptionMatches_CaseSensitive(desc, email, name) ==
    \/ IsSubstring(MailText(email), desc)
    \/ IsSubstring(name, desc)

\* the description test of the listing of all groups
DescriptionMatches(desc, email, name) ==
    \/ IsSubstring(LowerSeq(MailText(email)), LowerSeq(desc))
    \/ IsSubstring(LowerSeq(name), LowerSeq(desc))

\* check_community_group_exists answering False where it found the group of
\* a community with the same email
CheckCommunityGroupExists_DropsHit(tn, grps, email, name, ft, Fg, fl) ==
    LET same == {t \in tn : t.id # 0 /\
                   LowerSeq(MailText(t.email)) = LowerSeq(MailText(email))}
        scan == IF ft THEN [found |-> FALSE, calls |-> << >>]
                ELSE GroupScan(SortedIds(same), grps, Fg)
        c1 == <<Call("listTenants", email, 0, IF ft THEN "error" ELSE "ok")>>
              \o scan.calls
        community_groups == {g \in DOMAIN grps : g[1] = "community-"}
        match == ~fl /\ \E g \in community_groups :
                            DescriptionMatches(grps[g], email, name)
    IN  IF scan.found THEN [group_exists |-> FALSE, calls |-> c1]
        ELSE [group_exists |-> match,
              calls |-> Append(c1, Call("listGroups", NoEmail, 0,
                                         IF fl THEN "error"
                                         ELSE IF match THEN "exists" ELSE "ok"))]

\* check_community_group_exists answering True as soon as a community with
\* the same email is listed, whatever the lookup of its group says
CheckCommunityGroupExists_TripsOnTenant(tn, grps, email, name, ft, Fg, fl) ==
    LET same == {t \in tn : t.id # 0 /\
                   LowerSeq(MailText(t.email)) = LowerSeq(MailText(email))}
        scan == IF ft THEN [found |-> FALSE, calls |-> << >>]
                ELSE GroupScan(SortedIds(same), grps, Fg)
        c1 == <<Call("listTenants", email, 0, IF ft THEN "error" ELSE "ok")>>
              \o scan.calls
        community_groups == {g \in DOMAIN grps : g[1] = "community-"}
        match == ~fl /\ \E g \in community_groups :
                            DescriptionMatches(grps[g], email, name)
    IN  IF scan.found \/ (~ft /\ same # {})
        THEN [group_exists |-> TRUE, calls |-> c1]
        ELSE [group_exists |-> match,
              calls |-> Append(c1, Call("listGroups", NoEmail, 0,
                                         IF fl THEN "error"
                                         ELSE IF match THEN "exists" ELSE "ok"))]

\* check_community_group_exists; ft: the community listing fails, Fg: the
\* get_group lookups that fail, fl: the group listing fails
CheckCommunityGroupExists(tn, grps, email, name, ft, Fg, fl) ==
    LET same == {t \in tn : t.id # 0 /\
                   LowerSeq(MailText(t.email)) = LowerSeq(MailText(email))}
        scan == IF ft THEN [found |-> FALSE, calls |-> << >>]
                ELSE GroupScan(SortedIds(same), grps, Fg)
        c1 == <<Call("listTenants", email, 0, IF ft THEN "error" ELSE "ok")>>
              \o scan.calls
        community_groups == {g \in DOMAIN grps : g[1] = "community-"}
        match == ~fl /\ \E g \in community_groups :
                            DescriptionMatches(grps[g], email, name)
    IN  IF scan.found THEN [group_exists |-> TRUE, calls |-> c1]
        ELSE [group_exists |-> match,
              calls |-> Append(c1, Call("listGroups", NoEmail, 0,
                                         IF fl THEN "error"
                                         ELSE IF match THEN "exists" ELSE "ok"))]

(* --------------------------- initial states ---------------------------- *)
EmptyFn == [x \in {} |-> 0]

\* the names the derivation of the admin email is tried on
NameTexts == UNION {[1..k -> {"A", "b", "-"}] : k \in 0..MaxNameLen}

Name1 == <<"A", "b">>
Name2 == <<"-">>
TenantEmail1 == Mail(<<"t", "1">>, "x.com")
TenantEmail2 == Mail(<<"t", "2">>, "x.com")
FirstName == <<"F">>
LastName == <<"L">>

\* the Community Info sheets tried: none, one, or two communities
InputCommunities ==
    { << >>,
      <<[name |-> Name1, email |-> TenantEmail1]>>,
      <<[name |-> Name1, email |-> TenantEmail1],
        [name |-> Name2, email |-> TenantEmail2]>> }

\* row i of the Users sheet: with an email, with an email and a CommunityId
\* left by an earlier run, or without an email
RowChoices(i) ==
    { [email |-> MemberEmail(i), cid |-> 0],
      [email |-> MemberEmail(i), cid |-> 9],
      [email |-> NoEmail, cid |-> 0] }

InputRows ==
    UNION { { rs \in [1..k -> UNION {RowChoices(i) : i \in 1..k}] :
                \A i \in 1..k : rs[i] \in RowChoices(i) } : k \in 0..MaxMembers }

InputFiles ==
    [comms : InputCommunities, rows : InputRows,
     admin : {NoEmail, AdminEmail(Name1)}]

\* what the two backends hold before the first run: nothing, or a community
\* with the same contact email (with or without its group), and possibly an
\* account under a caretaker's or the admin's email
OldTenant == [id |-> 1, name |-> Name1, email |-> TenantEmail1]

OldAccount == [first |-> FirstName, last |-> LastName, verified |-> TRUE,
               pwd |-> [state |-> "permanent", value |-> "old"],
               groups |-> {GroupName(1)}]

InitialBackends ==
    { [tenants |-> t, groups |-> g, accounts |-> a] :
        t \in {{}, {OldTenant}},
        g \in {EmptyFn, GroupName(1) :> GroupDescription(Name1, 1)},
        a \in {EmptyFn, MemberEmail(1) :> OldAccount,
               AdminEmail(Name1) :> OldAccount} }

InitLocals ==
    /\ pc = [r \in Runs |-> "idle"]
    /\ communities = [r \in Runs |-> << >>]
    /\ caretakers = [r \in Runs |-> << >>]
    /\ community_id = [r \in Runs |-> 0]
    /\ cognito_group_name = [r \in Runs |-> << >>]
    /\ idx = [r \in Runs |-> 0]
    /\ created_caretakers = [r \in Runs |-> 0]
    /\ log = [r \in Runs |-> << >>]
    /\ exit_code = [r \in Runs |-> -1]
    /\ reason = [r \in Runs |-> ""]
    /\ input = [r \in Runs |-> [comms |-> << >>, rows |-> << >>, admin |-> NoEmail]]
    /\ summary = [r \in Runs |-> << >>]
    /\ faults = 0

Init ==
    /\ file \in InputFiles
    /\ \E b \in InitialBackends :
          /\ (b.groups # EmptyFn => b.tenants # {})
          /\ tenants = b.tenants
          /\ groups = b.groups
          /\ accounts = b.accounts
    /\ members = {}
    /\ InitLocals
    /\ probe = << >>

(* ------------------------------- actions ------------------------------- *)
\* how many more calls or answers may go wrong
Budget == MaxFaults - faults

Errors(calls) == Cardinality({i \in DOMAIN calls : calls[i].res = "error"})

\* the error message, then sys.exit(1)
Abort(r, calls, why) ==
    /\ pc' = [pc EXCEPT ![r] = "aborted"]
    /\ exit_code' = [exit_code EXCEPT ![r] = 1]
    /\ reason' = [reason EXCEPT ![r] = why]
    /\ log' = [log EXCEPT ![r] = @ \o calls]

\* an exception that leaves process_excel_file: main prints it and returns
Raise(r, calls) ==
    /\ pc' = [pc EXCEPT ![r] = "aborted"]
    /\ exit_code' = [exit_code EXCEPT ![r] = 0]
    /\ reason' = [reason EXCEPT ![r] = "exception"]
    /\ log' = [log EXCEPT ![r] = @ \o calls]

Goto(r, label, calls) ==
    /\ pc' = [pc EXCEPT ![r] = label]
    /\ log' = [log EXCEPT ![r] = @ \o calls]
    /\ UNCHANGED <<exit_code, reason>>

\* the answers the operator and the identity backend give to the sign-in
AuthOutcomes == {"ok", "no_credentials", "error", "other_challenge",
                 "new_password_mismatch", "new_password_ok",
                 "new_password_error", "no_api_url"}

\* main when the path given on the command line names no file: it prints
\* the error and returns, process_excel_file is not called
FileNotFound(r) ==
    /\ pc[r] = "idle"
    /\ Budget > 0
    /\ faults' = faults + 1
    /\ pc' = [pc EXCEPT ![r] = "aborted"]
    /\ exit_code' = [exit_code EXCEPT ![r] = 0]
    /\ reason' = [reason EXCEPT ![r] = "file not found"]
    /\ UNCHANGED <<file, backend, locals, log, input, probe>>

\* authenticate_cognito_user that takes any challenge for a successful sign-in
AuthenticateCognitoUser_AcceptsChallenge(o) ==
    CASE o = "error" ->
            [ok |-> FALSE, calls |-> <<Call("initiateAuth", NoEmail, 0, "error")>>]
      [] o = "other_challenge" ->
            [ok |-> TRUE, calls |-> <<Call("initiateAuth", NoEmail, 0, "challenge")>>]
      [] o = "new_password_mismatch" ->
            [ok |-> TRUE,
             calls |-> <<Call("initiateAuth", NoEmail, 0, "new_password_required")>>]
      [] o = "new_password_ok" ->
            [ok |-> TRUE,
             calls |-> <<Call("initiateAuth", NoEmail, 0, "new_password_required"),
                         Call("respondToChallenge", NoEmail, 0, "ok")>>]
      [] o = "new_password_error" ->
            [ok |-> FALSE,
             calls |-> <<Call("initiateAuth", NoEmail, 0, "new_password_required"),
                         Call("respondToChallenge", NoEmail, 0, "error")>>]
      [] OTHER ->
            [ok |-> TRUE, calls |-> <<Call("initiateAuth", NoEmail, 0, "ok")>>]

\* authenticate_cognito_user: ok = FALSE is the exception it raises.  The
\* answer of initiate_auth is a token ("ok"), a NEW_PASSWORD_REQUIRED
\* challenge ("new_password_required"), another challenge ("challenge") or
\* an error.  A NEW_PASSWORD_REQUIRED challenge is answered with the new
\* password the operator types twice.
AuthenticateCognitoUser(o) ==
    CASE o = "error" ->
            [ok |-> FALSE, calls |-> <<Call("initiateAuth", NoEmail, 0, "error")>>]
      [] o = "other_challenge" ->
            [ok |-> FALSE, calls |-> <<Call("initiateAuth", NoEmail, 0, "challenge")>>]
      [] o = "new_password_mismatch" ->
            [ok |-> FALSE,
             calls |-> <<Call("initiateAuth", NoEmail, 0, "new_password_required")>>]
      [] o = "new_password_ok" ->
            [ok |-> TRUE,
             calls |-> <<Call("initiateAuth", NoEmail, 0, "new_password_required"),
                         Call("respondToChallenge", NoEmail, 0, "ok")>>]
      [] o = "new_password_error" ->
            [ok |-> FALSE,
             calls |-> <<Call("initiateAuth", NoEmail, 0, "new_password_required"),
                         Call("respondToChallenge", NoEmail, 0, "error")>>]
      [] OTHER ->
            [ok |-> TRUE, calls |-> <<Call("initiateAuth", NoEmail, 0, "ok")>>]

\* process_excel_file up to the creation of the two clients
Authenticate(r) ==
    /\ pc[r] = "idle"
    /\ \E o \in AuthOutcomes :
          LET a == AuthenticateCognitoUser(o)
          IN  /\ o # "ok" => Budget > 0
              /\ faults' = IF o = "ok" THEN faults ELSE faults + 1
              /\ CASE o = "no_credentials" -> Abort(r, << >>, "no credentials")
                   [] o = "no_api_url" -> Raise(r, a.calls)
                   [] OTHER ->
                        IF a.ok THEN Goto(r, "authed", a.calls)
                        ELSE Abort(r, a.calls, "authentication failed")
    /\ input' = [input EXCEPT ![r] = file]
    /\ UNCHANGED <<file, backend, locals, probe>>

\* the processed check and the reading of the two sheets
CheckProcessed(r) ==
    /\ pc[r] = "authed"
    /\ \/ /\ CheckExcelAlreadyProcessed(file)
          /\ Abort(r, <<Call("hasProcessedMarker", NoEmail, 0, "exists")>>,
                   "already processed")
          /\ UNCHANGED <<communities, caretakers, faults>>
       \/ /\ ~CheckExcelAlreadyProcessed(file)
          /\ communities' = [communities EXCEPT ![r] = ReadCommunityData(file)]
          /\ caretakers' = [caretakers EXCEPT ![r] = ReadCaretakerData(file)]
          /\ Goto(r, "check_users",
                  <<Call("hasProcessedMarker", NoEmail, 0, "notfound"),
                    Call("readRecords", NoEmail, 0, "ok")>>)
          /\ UNCHANGED faults
       \/ \* the workbook cannot be read: the check answers False, the read raises
          /\ Budget > 0
          /\ faults' = faults + 1
          /\ Raise(r, <<Call("hasProcessedMarker", NoEmail, 0, "error"),
                        Call("readRecords", NoEmail, 0, "error")>>)
          /\ UNCHANGED <<communities, caretakers>>
    /\ UNCHANGED <<file, backend, community_id, cognito_group_name, idx,
                   created_caretakers, summary, input, probe>>

\* the check of the emails going straight on to the validation
CheckUsers_SkipsGroupCheck(r) ==
    /\ pc[r] = "check_users"
    /\ LET emails == EmailsToCheck(communities[r], caretakers[r])
       IN  IF emails = << >>
           THEN Goto(r, "validate", << >>) /\ UNCHANGED faults
           ELSE \E F \in SUBSET DOMAIN emails :
                   /\ Cardinality(F) <= Budget
                   /\ faults' = faults + Cardinality(F)
                   /\ LET c == CheckUsersExistInCognito(accounts, emails, F)
                      IN  IF c.users_exist
                          THEN Abort(r, c.calls, "users exist")
                          ELSE Goto(r, "validate", c.calls)
    /\ UNCHANGED <<file, backend, locals, input, probe>>

\* the check of the emails against the user pool
CheckUsers(r) ==
    /\ pc[r] = "check_users"
    /\ LET emails == EmailsToCheck(communities[r], caretakers[r])
       IN  IF emails = << >>
           THEN Goto(r, "check_group", << >>) /\ UNCHANGED faults
           ELSE \E F \in SUBSET DOMAIN emails :
                   /\ Cardinality(F) <= Budget
                   /\ faults' = faults + Cardinality(F)
                   /\ LET c == CheckUsersExistInCognito(accounts, emails, F)
                      IN  IF c.users_exist
                          THEN Abort(r, c.calls, "users exist")
                          ELSE Goto(r, "check_group", c.calls)
    /\ UNCHANGED <<file, backend, locals, input, probe>>

\* the check of the community's group
CheckGroup(r) ==
    /\ pc[r] = "check_group"
    /\ IF communities[r] = << >> \/ communities[r][1].email = NoEmail
       THEN Goto(r, "validate", << >>) /\ UNCHANGED faults
       ELSE \E ft \in BOOLEAN, fl \in BOOLEAN,
               Fg \in SUBSET {t.id : t \in tenants} :
               LET c == CheckCommunityGroupExists(tenants, groups,
                            communities[r][1].email, communities[r][1].name,
                            ft, Fg, fl)
                   n == Cardinality(Fg) + (IF ft THEN 1 ELSE 0)
                                        + (IF fl THEN 1 ELSE 0)
               IN  /\ n <= Budget
                   /\ Errors(c.calls) = n
                   /\ faults' = faults + n
                   /\ IF c.group_exists
                      THEN Abort(r, c.calls, "group exists")
                      ELSE Goto(r, "validate", c.calls)
    /\ UNCHANGED <<file, backend, locals, input, probe>>

\* the validation letting several communities through
Validate_AllowsMany(r) ==
    /\ pc[r] = "validate"
    /\ IF Len(communities[r]) = 0
       THEN Abort(r, << >>, "no community")
       ELSE Goto(r, "create_community", << >>)
    /\ UNCHANGED <<file, backend, locals, input, faults, probe>>

\* the validation waiting for a workbook with exactly one community
Validate_WaitsForOne(r) ==
    /\ pc[r] = "validate"
    /\ Len(communities[r]) = 1
    /\ Goto(r, "create_community", << >>)
    /\ UNCHANGED <<file, backend, locals, input, faults, probe>>

\* exactly one community
Validate(r) ==
    /\ pc[r] = "validate"
    /\ IF Len(communities[r]) = 0
       THEN Abort(r, << >>, "no community")
       ELSE IF Len(communities[r]) > 1
       THEN Abort(r, << >>, "multiple communities")
       ELSE Goto(r, "create_community", << >>)
    /\ UNCHANGED <<file, backend, locals, input, faults, probe>>

\* the id the data backend gives the next community
NewTenantId == Cardinality(tenants) + 1

\* create_community whose failure does not stop the run
CreateCommunity_Continues(r) ==
    /\ pc[r] = "create_community"
    /\ LET community_data == communities[r][1]
           id == NewTenantId
       IN  \/ /\ Budget > 0
              /\ faults' = faults + 1
              /\ Goto(r, "create_group",
                      <<Call("createTenant", community_data.email, 0, "error")>>)
              /\ UNCHANGED <<file, tenants, community_id>>
           \/ \E written \in BOOLEAN :
              /\ ~written => Budget > 0
              /\ faults' = IF written THEN faults ELSE faults + 1
              /\ tenants' = tenants \cup
                    {[id |-> id, name |-> community_data.name,
                      email |-> community_data.email]}
              /\ community_id' = [community_id EXCEPT ![r] = id]
              /\ file' = IF written THEN UpdateExcelWithCommunityId(file, id)
                         ELSE file
              /\ Goto(r, "create_group",
                      <<Call("createTenant", community_data.email, id, "ok"),
                        Call("writeBackTenantId", NoEmail, id,
                             IF written THEN "ok" ELSE "error")>>)
    /\ UNCHANGED <<members, accounts, groups, communities, caretakers,
                   cognito_group_name, idx, created_caretakers, summary, input,
                   probe>>

\* create_community looking once more for a community with the same email
CreateCommunity_ChecksAgain(r) ==
    /\ pc[r] = "create_community"
    /\ \A t \in tenants : t.email # communities[r][1].email
    /\ LET community_data == communities[r][1]
           id == NewTenantId
       IN  \/ \* the mutation fails: create_community returns None
              /\ Budget > 0
              /\ faults' = faults + 1
              /\ Abort(r, <<Call("createTenant", community_data.email, 0, "error")>>,
                       "community creation failed")
              /\ UNCHANGED <<file, tenants, community_id>>
           \/ \E written \in BOOLEAN :
              /\ ~written => Budget > 0
              /\ faults' = IF written THEN faults ELSE faults + 1
              /\ tenants' = tenants \cup
                    {[id |-> id, name |-> community_data.name,
                      email |-> community_data.email]}
              /\ community_id' = [community_id EXCEPT ![r] = id]
              /\ file' = IF written THEN UpdateExcelWithCommunityId(file, id)
                         ELSE file
              /\ Goto(r, "create_group",
                      <<Call("createTenant", community_data.email, id, "ok"),
                        Call("writeBackTenantId", NoEmail, id,
                             IF written THEN "ok" ELSE "error")>>)
    /\ UNCHANGED <<members, accounts, groups, communities, caretakers,
                   cognito_group_name, idx, created_caretakers, summary, input,
                   probe>>

\* create_community called again after a failure
CreateCommunity_TriesAgain(r) ==
    /\ pc[r] = "create_community"
    /\ LET community_data == communities[r][1]
           id == NewTenantId
       IN  \/ /\ Budget > 0
              /\ faults' = faults + 1
              /\ Goto(r, "create_community",
                      <<Call("createTenant", community_data.email, 0, "error")>>)
              /\ UNCHANGED <<file, tenants, community_id>>
           \/ \E written \in BOOLEAN :
              /\ ~written => Budget > 0
              /\ faults' = IF written THEN faults ELSE faults + 1
              /\ tenants' = tenants \cup
                    {[id |-> id, name |-> community_data.name,
                      email |-> community_data.email]}
              /\ community_id' = [community_id EXCEPT ![r] = id]
              /\ file' = IF written THEN UpdateExcelWithCommunityId(file, id)
                         ELSE file
              /\ Goto(r, "create_group",
                      <<Call("createTenant", community_data.email, id, "ok"),
                        Call("writeBackTenantId", NoEmail, id,
                             IF written THEN "ok" ELSE "error")>>)
    /\ UNCHANGED <<members, accounts, groups, communities, caretakers,
                   cognito_group_name, idx, created_caretakers, summary, input,
                   probe>>

\* create_community with a write-back whose failure stops the run
CreateCommunity_WriteBackFatal(r) ==
    /\ pc[r] = "create_community"
    /\ LET community_data == communities[r][1]
           id == NewTenantId
       IN  \/ /\ Budget > 0
              /\ faults' = faults + 1
              /\ Abort(r, <<Call("createTenant", community_data.email, 0, "error")>>,
                       "community creation failed")
              /\ UNCHANGED <<file, tenants, community_id>>
           \/ \E written \in BOOLEAN :
              /\ ~written => Budget > 0
              /\ faults' = IF written THEN faults ELSE faults + 1
              /\ tenants' = tenants \cup
                    {[id |-> id, name |-> community_data.name,
                      email |-> community_data.email]}
              /\ community_id' = [community_id EXCEPT ![r] = id]
              /\ file' = IF written THEN UpdateExcelWithCommunityId(file, id)
                         ELSE file
              /\ LET calls == <<Call("createTenant", community_data.email, id, "ok"),
                                Call("writeBackTenantId", NoEmail, id,
                                     IF written THEN "ok" ELSE "error")>>
                 IN  IF written THEN Goto(r, "create_group", calls)
                     ELSE Abort(r, calls, "exception")
    /\ UNCHANGED <<members, accounts, groups, communities, caretakers,
                   cognito_group_name, idx, created_caretakers, summary, input,
                   probe>>

\* create_community, then the write-back of the id into the Users sheet
CreateCommunity(r) ==
    /\ pc[r] = "create_community"
    /\ LET community_data == communities[r][1]
           id == NewTenantId
       IN  \/ \* the mutation fails: create_community returns None
              /\ Budget > 0
              /\ faults' = faults + 1
              /\ Abort(r, <<Call("createTenant", community_data.email, 0, "error")>>,
                       "community creation failed")
              /\ UNCHANGED <<file, tenants, community_id>>
           \/ \E written \in BOOLEAN :
              /\ ~written => Budget > 0
              /\ faults' = IF written THEN faults ELSE faults + 1
              /\ tenants' = tenants \cup
                    {[id |-> id, name |-> community_data.name,
                      email |-> community_data.email]}
              /\ community_id' = [community_id EXCEPT ![r] = id]
              /\ file' = IF written THEN UpdateExcelWithCommunityId(file, id)
                         ELSE file
              /\ Goto(r, "create_group",
                      <<Call("createTenant", community_data.email, id, "ok"),
                        Call("writeBackTenantId", NoEmail, id,
                             IF written THEN "ok" ELSE "error")>>)
    /\ UNCHANGED <<members, accounts, groups, communities, caretakers,
                   cognito_group_name, idx, created_caretakers, summary, input,
                   probe>>

\* the group step going on to the caretakers when the group could not be had
CreateGroup_Continues(r) ==
    /\ pc[r] = "create_group"
    /\ \E f \in 0..2 :
          LET g == GetOrCreateCognitoGroup(groups, community_id[r],
                                           communities[r][1].name, f)
          IN  /\ f > 0 => Budget > 0 /\ Errors(g.calls) = 1
              /\ faults' = IF f > 0 THEN faults + 1 ELSE faults
              /\ groups' = g.groups
              /\ IF g.ok
                 THEN /\ cognito_group_name' =
                            [cognito_group_name EXCEPT ![r] = g.name]
                      /\ Goto(r, "caretakers", g.calls)
                 ELSE /\ cognito_group_name' =
                            [cognito_group_name EXCEPT ![r] = g.name]
                      /\ Goto(r, "caretakers", g.calls)
                      /\ UNCHANGED <<exit_code, reason>>
    /\ UNCHANGED <<file, tenants, members, accounts, communities, caretakers,
                   community_id, idx, created_caretakers, summary, input, probe>>

\* the group of the community
CreateGroup(r) ==
    /\ pc[r] = "create_group"
    /\ \E f \in 0..2 :
          LET g == GetOrCreateCognitoGroup(groups, community_id[r],
                                           communities[r][1].name, f)
          IN  /\ f > 0 => Budget > 0 /\ Errors(g.calls) = 1
              /\ faults' = IF f > 0 THEN faults + 1 ELSE faults
              /\ groups' = g.groups
              /\ IF g.ok
                 THEN /\ cognito_group_name' =
                            [cognito_group_name EXCEPT ![r] = g.name]
                      /\ Goto(r, "caretakers", g.calls)
                 ELSE /\ Abort(r, g.calls, "group creation failed")
                      /\ UNCHANGED cognito_group_name
    /\ UNCHANGED <<file, tenants, members, accounts, communities, caretakers,
                   community_id, idx, created_caretakers, summary, input, probe>>

\* verify_caretaker_created: the query by email and role 'CARETAKER'
VerifyCaretakerCreated(mem, email, fails) ==
    ~fails /\ \E m \in mem : m.email = email /\ m.role = "CARETAKER"

\* a role "Admin" given to the record whose last name is 'Admin'
RoleOf_AdminByLastName(data) ==
    IF data.lastName = <<"A", "d", "m", "i", "n">> THEN "Admin" ELSE "CARETAKER"

\* the input of createCommunityCaretaker carries no role: the record gets the
\* role of the mutation, whoever it is for
RoleOf(data) == "CARETAKER"

\* the record the data backend stores for createCommunityCaretaker
MemberRecord(mem, data) ==
    [id |-> Cardinality(mem) + 1, email |-> data.email,
     communityId |-> data.communityId, firstName |-> data.firstName,
     lastName |-> data.lastName, role |-> RoleOf(data)]

\* the row sent with the CommunityId it came with
CaretakerData_KeepsInput(row, id) ==
    [firstName |-> FirstName, lastName |-> LastName, email |-> row.email,
     communityId |-> row.cid]

\* caretaker_data['communityId'] = community_id: the row as it is sent
CaretakerData(row, id) ==
    [firstName |-> FirstName, lastName |-> LastName, email |-> row.email,
     communityId |-> id]

\* admin_caretaker_data
AdminCaretakerData(community_name, community_email, id) ==
    [firstName |-> community_name, lastName |-> <<"A", "d", "m", "i", "n">>,
     email |-> community_email, communityId |-> id]

\* the loop over the caretakers stopping the run at a failed verification
CreateCaretaker_VerificationFatal(r) ==
    /\ pc[r] = "caretakers"
    /\ idx[r] < Len(caretakers[r])
    /\ LET row == caretakers[r][idx[r] + 1]
           caretaker_data == CaretakerData(row, community_id[r])
           create(res) == Call("createMember", caretaker_data.email,
                               caretaker_data.communityId, res)
       IN  \/ \* create_caretaker returns None: next caretaker
              /\ Budget > 0
              /\ faults' = faults + 1
              /\ Goto(r, "caretakers", <<create("error")>>)
              /\ UNCHANGED <<members, accounts, created_caretakers>>
           \/ \* created, but the row has no email
              /\ caretaker_data.email = NoEmail
              /\ members' = members \cup {MemberRecord(members, caretaker_data)}
              /\ created_caretakers' = [created_caretakers EXCEPT ![r] = @ + 1]
              /\ Abort(r, <<create("ok")>>, "email required")
              /\ UNCHANGED <<accounts, faults>>
           \/ \E fv \in BOOLEAN, fu \in 0..3 :
                 LET mem == members \cup {MemberRecord(members, caretaker_data)}
                     is_verified == VerifyCaretakerCreated(mem, row.email, fv)
                     u == AddUserToCognito(accounts, groups, row.email,
                              FirstName, LastName, cognito_group_name[r], fu)
                     n == (IF fv THEN 1 ELSE 0) + (IF fu > 0 THEN 1 ELSE 0)
                     calls == <<create("ok"),
                                Call("findMember", row.email, 0,
                                     IF fv THEN "error" ELSE "ok")>>
                              \o (IF is_verified THEN u.calls ELSE << >>)
                 IN  /\ caretaker_data.email # NoEmail
                     /\ n <= Budget
                     /\ Errors(calls) = n
                     /\ faults' = faults + n
                     /\ members' = mem
                     /\ created_caretakers' =
                            [created_caretakers EXCEPT ![r] = @ + 1]
                     /\ accounts' = IF is_verified THEN u.accounts ELSE accounts
                     /\ IF u.ok /\ is_verified THEN Goto(r, "caretakers", calls)
                        ELSE Abort(r, calls, "cognito registration failed")
    /\ idx' = [idx EXCEPT ![r] = @ + 1]
    /\ UNCHANGED <<file, tenants, groups, communities, caretakers, community_id,
                   cognito_group_name, summary, input, probe>>

\* one turn of the loop over the caretakers
CreateCaretaker(r) ==
    /\ pc[r] = "caretakers"
    /\ idx[r] < Len(caretakers[r])
    /\ LET row == caretakers[r][idx[r] + 1]
           caretaker_data == CaretakerData(row, community_id[r])
           create(res) == Call("createMember", caretaker_data.email,
                               caretaker_data.communityId, res)
       IN  \/ \* create_caretaker returns None: next caretaker
              /\ Budget > 0
              /\ faults' = faults + 1
              /\ Goto(r, "caretakers", <<create("error")>>)
              /\ UNCHANGED <<members, accounts, created_caretakers>>
           \/ \* created, but the row has no email
              /\ caretaker_data.email = NoEmail
              /\ members' = members \cup {MemberRecord(members, caretaker_data)}
              /\ created_caretakers' = [created_caretakers EXCEPT ![r] = @ + 1]
              /\ Abort(r, <<create("ok")>>, "email required")
              /\ UNCHANGED <<accounts, faults>>
           \/ \E fv \in BOOLEAN, fu \in 0..3 :
                 LET mem == members \cup {MemberRecord(members, caretaker_data)}
                     is_verified == VerifyCaretakerCreated(mem, row.email, fv)
                     u == AddUserToCognito(accounts, groups, row.email,
                              FirstName, LastName, cognito_group_name[r], fu)
                     n == (IF fv THEN 1 ELSE 0) + (IF fu > 0 THEN 1 ELSE 0)
                     calls == <<create("ok"),
                                Call("findMember", row.email, 0,
                                     IF fv THEN "error" ELSE "ok")>> \o u.calls
                 IN  /\ caretaker_data.email # NoEmail
                     /\ n <= Budget
                     /\ Errors(calls) = n
                     /\ faults' = faults + n
                     /\ members' = mem
                     /\ created_caretakers' =
                            [created_caretakers EXCEPT ![r] = @ + 1]
                     /\ accounts' = u.accounts
                     /\ IF u.ok THEN Goto(r, "caretakers", calls)
                        ELSE Abort(r, calls, "cognito registration failed")
    /\ idx' = [idx EXCEPT ![r] = @ + 1]
    /\ UNCHANGED <<file, tenants, groups, communities, caretakers, community_id,
                   cognito_group_name, summary, input, probe>>

\* the summary that counts every caretaker as created
Summary_CountsAllCreated(r) ==
    [communities |-> [total |-> Len(communities[r]), created |-> 1,
                      failed |-> Len(communities[r]) - 1],
     caretakers |-> [total |-> Len(caretakers[r]),
                     created |-> Len(caretakers[r]),
                     failed |-> 0]]

\* the summary that counts a verification alarm as a failure
Summary_CountsAlarms(r) ==
    [communities |-> [total |-> Len(communities[r]), created |-> 1,
                      failed |-> Len(communities[r]) - 1],
     caretakers |-> [total |-> Len(caretakers[r]),
                     created |-> created_caretakers[r],
                     failed |-> Len(caretakers[r]) - created_caretakers[r]
                                + Cardinality({i \in DOMAIN log[r] :
                                      /\ log[r][i].op = "findMember"
                                      /\ log[r][i].res = "error"})]]

\* the summary process_excel_file returns
Summary(r) ==
    [communities |-> [total |-> Len(communities[r]), created |-> 1,
                      failed |-> Len(communities[r]) - 1],
     caretakers |-> [total |-> Len(caretakers[r]),
                     created |-> created_caretakers[r],
                     failed |-> Len(caretakers[r]) - created_caretakers[r]]]

\* the operator's answers to the two password prompts
PasswordOutcomes == {"ok", "empty", "mismatch"}

\* the admin phase stopping the run at a failed verification
CreateAdmin_VerificationFatal(r) ==
    /\ pc[r] = "caretakers"
    /\ idx[r] = Len(caretakers[r])
    /\ LET community_name == communities[r][1].name
           community_email == AdminEmail(community_name)
           admin_caretaker_data ==
               AdminCaretakerData(community_name, community_email, community_id[r])
       IN  \/ \* the password is empty or not confirmed
              /\ Budget > 0
              /\ faults' = faults + 1
              /\ Abort(r, << >>, "no admin password")
              /\ UNCHANGED <<file, members, accounts, summary>>
           \/ \E fu \in 0..4, fc \in BOOLEAN, fv \in BOOLEAN, fw \in BOOLEAN :
                 LET u == AddVerifiedUserToCognito(accounts, groups,
                              community_email, "secret", community_name,
                              admin_caretaker_data.lastName,
                              cognito_group_name[r], fu)
                     mem == members \cup {MemberRecord(members, admin_caretaker_data)}
                     c2 == IF ~u.ok THEN << >>
                           ELSE IF fc
                           THEN <<Call("createMember", community_email,
                                       admin_caretaker_data.communityId, "error")>>
                           ELSE <<Call("createMember", community_email,
                                       admin_caretaker_data.communityId, "ok"),
                                  Call("findMember", community_email, 0,
                                       IF fv THEN "error" ELSE "ok")>>
                     finished == u.ok /\ ~fc /\ ~fv
                     c3 == IF finished
                           THEN <<Call("writeBackAdminCredentials", community_email,
                                       0, IF fw THEN "error" ELSE "ok")>>
                           ELSE << >>
                     calls == u.calls \o c2 \o c3
                     n == Errors(calls)
                 IN  /\ n <= Budget
                     /\ n = (IF fu > 0 THEN 1 ELSE 0) + (IF fc THEN 1 ELSE 0)
                            + (IF fv THEN 1 ELSE 0) + (IF fw THEN 1 ELSE 0)
                     /\ fw => finished
                     /\ faults' = faults + n
                     /\ accounts' = u.accounts
                     /\ members' = IF finished THEN mem ELSE members
                     /\ file' = IF finished /\ ~fw
                                THEN AddAdminCredentialsToExcel(file, community_email)
                                ELSE file
                     /\ IF finished
                        THEN /\ pc' = [pc EXCEPT ![r] = "done"]
                             /\ exit_code' = [exit_code EXCEPT ![r] = 0]
                             /\ log' = [log EXCEPT ![r] = @ \o calls]
                             /\ summary' = [summary EXCEPT ![r] = Summary(r)]
                             /\ UNCHANGED reason
                        ELSE /\ Abort(r, calls,
                                      IF u.ok THEN "admin caretaker creation failed"
                                      ELSE "admin user creation failed")
                             /\ UNCHANGED summary
    /\ UNCHANGED <<tenants, groups, communities, caretakers, community_id,
                   cognito_group_name, idx, created_caretakers, input, probe>>

\* the admin phase stopping the run when the credentials cannot be written
CreateAdmin_WriteBackFatal(r) ==
    /\ pc[r] = "caretakers"
    /\ idx[r] = Len(caretakers[r])
    /\ LET community_name == communities[r][1].name
           community_email == AdminEmail(community_name)
           admin_caretaker_data ==
               AdminCaretakerData(community_name, community_email, community_id[r])
       IN  \/ \* the password is empty or not confirmed
              /\ Budget > 0
              /\ faults' = faults + 1
              /\ Abort(r, << >>, "no admin password")
              /\ UNCHANGED <<file, members, accounts, summary>>
           \/ \E fu \in 0..4, fc \in BOOLEAN, fv \in BOOLEAN, fw \in BOOLEAN :
                 LET u == AddVerifiedUserToCognito(accounts, groups,
                              community_email, "secret", community_name,
                              admin_caretaker_data.lastName,
                              cognito_group_name[r], fu)
                     mem == members \cup {MemberRecord(members, admin_caretaker_data)}
                     c2 == IF ~u.ok THEN << >>
                           ELSE IF fc
                           THEN <<Call("createMember", community_email,
                                       admin_caretaker_data.communityId, "error")>>
                           ELSE <<Call("createMember", community_email,
                                       admin_caretaker_data.communityId, "ok"),
                                  Call("findMember", community_email, 0,
                                       IF fv THEN "error" ELSE "ok")>>
                     finished == u.ok /\ ~fc
                     c3 == IF finished
                           THEN <<Call("writeBackAdminCredentials", community_email,
                                       0, IF fw THEN "error" ELSE "ok")>>
                           ELSE << >>
                     calls == u.calls \o c2 \o c3
                     n == Errors(calls)
                 IN  /\ n <= Budget
                     /\ n = (IF fu > 0 THEN 1 ELSE 0) + (IF fc THEN 1 ELSE 0)
                            + (IF fv THEN 1 ELSE 0) + (IF fw THEN 1 ELSE 0)
                     /\ fw => finished
                     /\ faults' = faults + n
                     /\ accounts' = u.accounts
                     /\ members' = IF finished THEN mem ELSE members
                     /\ file' = IF finished /\ ~fw
                                THEN AddAdminCredentialsToExcel(file, community_email)
                                ELSE file
                     /\ IF finished /\ ~fw
                        THEN /\ pc' = [pc EXCEPT ![r] = "done"]
                             /\ exit_code' = [exit_code EXCEPT ![r] = 0]
                             /\ log' = [log EXCEPT ![r] = @ \o calls]
                             /\ summary' = [summary EXCEPT ![r] = Summary(r)]
                             /\ UNCHANGED reason
                        ELSE /\ Abort(r, calls,
                                      IF u.ok THEN "admin caretaker creation failed"
                                      ELSE "admin user creation failed")
                             /\ UNCHANGED summary
    /\ UNCHANGED <<tenants, groups, communities, caretakers, community_id,
                   cognito_group_name, idx, created_caretakers, input, probe>>

\* the community admin user, after the loop
CreateAdmin(r) ==
    /\ pc[r] = "caretakers"
    /\ idx[r] = Len(caretakers[r])
    /\ LET community_name == communities[r][1].name
           community_email == AdminEmail(community_name)
           admin_caretaker_data ==
               AdminCaretakerData(community_name, community_email, community_id[r])
       IN  \/ \* the password is empty or not confirmed
              /\ Budget > 0
              /\ faults' = faults + 1
              /\ Abort(r, << >>, "no admin password")
              /\ UNCHANGED <<file, members, accounts, summary>>
           \/ \E fu \in 0..4, fc \in BOOLEAN, fv \in BOOLEAN, fw \in BOOLEAN :
                 LET u == AddVerifiedUserToCognito(accounts, groups,
                              community_email, "secret", community_name,
                              admin_caretaker_data.lastName,
                              cognito_group_name[r], fu)
                     mem == members \cup {MemberRecord(members, admin_caretaker_data)}
                     c2 == IF ~u.ok THEN << >>
                           ELSE IF fc
                           THEN <<Call("createMember", community_email,
                                       admin_caretaker_data.communityId, "error")>>
                           ELSE <<Call("createMember", community_email,
                                       admin_caretaker_data.communityId, "ok"),
                                  Call("findMember", community_email, 0,
                                       IF fv THEN "error" ELSE "ok")>>
                     finished == u.ok /\ ~fc
                     c3 == IF finished
                           THEN <<Call("writeBackAdminCredentials", community_email,
                                       0, IF fw THEN "error" ELSE "ok")>>
                           ELSE << >>
                     calls == u.calls \o c2 \o c3
                     n == Errors(calls)
                 IN  /\ n <= Budget
                     /\ n = (IF fu > 0 THEN 1 ELSE 0) + (IF fc THEN 1 ELSE 0)
                            + (IF fv THEN 1 ELSE 0) + (IF fw THEN 1 ELSE 0)
                     /\ fw => finished
                     /\ faults' = faults + n
                     /\ accounts' = u.accounts
                     /\ members' = IF finished THEN mem ELSE members
                     /\ file' = IF finished /\ ~fw
                                THEN AddAdminCredentialsToExcel(file, community_email)
                                ELSE file
                     /\ IF finished
                        THEN /\ pc' = [pc EXCEPT ![r] = "done"]
                             /\ exit_code' = [exit_code EXCEPT ![r] = 0]
                             /\ log' = [log EXCEPT ![r] = @ \o calls]
                             /\ summary' = [summary EXCEPT ![r] = Summary(r)]
                             /\ UNCHANGED reason
                        ELSE /\ Abort(r, calls,
                                      IF u.ok THEN "admin caretaker creation failed"
                                      ELSE "admin user creation failed")
                             /\ UNCHANGED summary
    /\ UNCHANGED <<tenants, groups, communities, caretakers, community_id,
                   cognito_group_name, idx, created_caretakers, input, probe>>

\* one step of run r of the tool
Step(r) ==
    \/ FileNotFound(r)
    \/ Authenticate(r)
    \/ CheckProcessed(r)
    \/ CheckUsers(r)
    \/ CheckGroup(r)
    \/ Validate(r)
    \/ CreateCommunity(r)
    \/ CreateGroup(r)
    \/ CreateCaretaker(r)
    \/ CreateAdmin(r)

Terminated(r) == pc[r] \in {"done", "aborted"}

\* a single run of the tool
Next == Step(1)

Spec == Init /\ [][Next]_vars

\* a single run in which every call and every prompt returns: the process
\* takes its next step as long as it has one
SpecLive == Init /\ [][Next]_vars /\ WF_vars(Next)

\* the tool run again on the same workbook once the run before has ended
NextRerun == \E r \in Runs : (\A q \in 1..(r - 1) : Terminated(q)) /\ Step(r)

SpecRerun == Init /\ [][NextRerun]_vars

(* ------------------- two runs at the same time ------------------------- *)
\* two invocations of the tool on the same workbook, one community with at
\* most one caretaker and no processed marker, started by two operators
\* against backends that hold nothing yet; at most one call or answer goes
\* wrong
InitInterleaved ==
    /\ file \in {f \in InputFiles : /\ Len(f.comms) = 1
                                    /\ Len(f.rows) <= 1
                                    /\ ~CheckExcelAlreadyProcessed(f)}
    /\ tenants = {}
    /\ groups = EmptyFn
    /\ accounts = EmptyFn
    /\ members = {}
    /\ pc = [r \in Runs |-> "idle"]
    /\ communities = [r \in Runs |-> << >>]
    /\ caretakers = [r \in Runs |-> << >>]
    /\ community_id = [r \in Runs |-> 0]
    /\ cognito_group_name = [r \in Runs |-> << >>]
    /\ idx = [r \in Runs |-> 0]
    /\ created_caretakers = [r \in Runs |-> 0]
    /\ log = [r \in Runs |-> << >>]
    /\ exit_code = [r \in Runs |-> -1]
    /\ reason = [r \in Runs |-> ""]
    /\ input = [r \in Runs |-> [comms |-> << >>, rows |-> << >>, admin |-> NoEmail]]
    /\ summary = [r \in Runs |-> << >>]
    /\ faults = MaxFaults - 1
    /\ probe = << >>

\* a step of either of the two processes
NextInterleaved == \E r \in 1..2 : Step(r)

SpecInterleaved == InitInterleaved /\ [][NextInterleaved]_vars

(* --------------- a later run on another workbook ---------------------- *)
\* community names of the second workbook: the first one's name, two names
\* that differ from it in case or in a character that is not kept, and one
\* that gives another admin email
FreshNames == {Name1, <<"a", "B">>, <<"A", "-", "b">>, <<"B">>}

\* workbooks that were never processed: one community, at most one caretaker,
\* who is not in the first workbook
FreshFiles ==
    [comms : {<<[name |-> n, email |-> e]>> :
                  n \in FreshNames, e \in {TenantEmail1, TenantEmail2}},
     rows : {<< >>, <<[email |-> MemberEmail(2), cid |-> 0]>>},
     admin : {NoEmail}]

\* once the first run has ended done, the operator starts the tool on
\* another workbook
NewWorkbook ==
    /\ pc[1] = "done"
    /\ pc[2] = "idle"
    /\ probe = << >>
    /\ file' \in FreshFiles
    /\ probe' = <<"fresh">>
    /\ UNCHANGED <<backend, locals, pc, log, exit_code, reason, input, faults>>

NextFresh ==
    \/ Step(1)
    \/ NewWorkbook
    \/ probe # << >> /\ Step(2)

\* the first run starts as a run of the two above does
SpecFresh == InitInterleaved /\ [][NextFresh]_vars

(* ------------- the descriptions of the groups of the pool -------------- *)
\* a group of the pool that is not the group of a community
StaffGroup == <<"staff-", 1>>

\* a description that names a contact email
ContactDescription(e) ==
    <<"C", "o", "n", "t", "a", "c", "t", ":", " ">> \o MailText(e)

\* workbooks with one community and at most one caretaker: the old one's name,
\* the same name in another case, a part of it, and names that occur in no
\* description; with the old community's email or another
DescriptionFiles ==
    [comms : {<<[name |-> n, email |-> e]>> :
                  n \in {Name1, <<"a", "B">>, <<"b">>, <<"B", "-">>, Name2},
                  e \in {TenantEmail1, TenantEmail2}},
     rows : {<< >>, <<[email |-> MemberEmail(1), cid |-> 0]>>},
     admin : {NoEmail}]

\* the pool holds the old community's group, or a group of another kind with
\* the same description, or the old community's group described by a
\* contact email
DescriptionGroups ==
    { EmptyFn,
      GroupName(1) :> GroupDescription(Name1, 1),
      StaffGroup :> GroupDescription(Name1, 1),
      GroupName(1) :> ContactDescription(TenantEmail2) }

\* a run against backends that hold the old community; at most one call or
\* answer goes wrong
InitDescription ==
    /\ file \in DescriptionFiles
    /\ tenants = {OldTenant}
    /\ groups \in DescriptionGroups
    /\ accounts = EmptyFn
    /\ members = {}
    /\ pc = [r \in Runs |-> "idle"]
    /\ communities = [r \in Runs |-> << >>]
    /\ caretakers = [r \in Runs |-> << >>]
    /\ community_id = [r \in Runs |-> 0]
    /\ cognito_group_name = [r \in Runs |-> << >>]
    /\ idx = [r \in Runs |-> 0]
    /\ created_caretakers = [r \in Runs |-> 0]
    /\ log = [r \in Runs |-> << >>]
    /\ exit_code = [r \in Runs |-> -1]
    /\ reason = [r \in Runs |-> ""]
    /\ input = [r \in Runs |-> [comms |-> << >>, rows |-> << >>, admin |-> NoEmail]]
    /\ summary = [r \in Runs |-> << >>]
    /\ faults = MaxFaults - 1
    /\ probe = << >>

SpecDescription == InitDescription /\ [][Next]_vars

(* ------------------- the account upsert on its own --------------------- *)
\* arguments of the upsert: email, names, group, and the verified variant
\* (add_verified_user_to_cognito) or the plain one (add_user_to_cognito)
UpsertArguments ==
    [email : {MemberEmail(1), AdminEmail(Name1)},
     first : {FirstName, Name1},
     last : {LastName},
     g : {GroupName(1), GroupName(2)},
     password : {"secret"},
     verified : BOOLEAN,
     n : {0},
     after1 : {EmptyFn}]

\* a user pool with the two groups and no account under the email
InitUpsert ==
    /\ probe \in UpsertArguments
    /\ accounts \in {EmptyFn, MemberEmail(2) :> OldAccount}
    /\ groups = [g \in {GroupName(1), GroupName(2)} |-> GroupDescription(Name1, g[2])]
    /\ tenants = {}
    /\ members = {}
    /\ file = [comms |-> << >>, rows |-> << >>, admin |-> NoEmail]
    /\ InitLocals

\* the bookkeeping of a call of the upsert: n counts the calls that returned
\* True, after1 is the user pool after the first of them
Upserted(u) ==
    /\ accounts' = u.accounts
    /\ log' = [log EXCEPT ![1] = @ \o u.calls]
    /\ faults' = faults + Errors(u.calls)
    /\ probe' = IF u.ok
                THEN [probe EXCEPT !.n = @ + 1,
                                   !.after1 = IF probe.n = 0 THEN u.accounts ELSE @]
                ELSE probe
    /\ UNCHANGED <<file, tenants, members, groups, pc, locals, exit_code,
                   reason, input>>

UpsertMember ==
    /\ probe.n < 2
    /\ ~probe.verified
    /\ \E f \in 0..3 :
          LET u == AddUserToCognito(accounts, groups, probe.email, probe.first,
                                    probe.last, probe.g, f)
          IN  /\ Errors(u.calls) = (IF f > 0 THEN 1 ELSE 0)
              /\ Errors(u.calls) <= Budget
              /\ Upserted(u)

UpsertAdmin ==
    /\ probe.n < 2
    /\ probe.verified
    /\ \E f \in 0..4 :
          LET u == AddVerifiedUserToCognito(accounts, groups, probe.email,
                       probe.password, probe.first, probe.last, probe.g, f)
          IN  /\ Errors(u.calls) = (IF f > 0 THEN 1 ELSE 0)
              /\ Errors(u.calls) <= Budget
              /\ Upserted(u)

NextUpsert == UpsertMember \/ UpsertAdmin

SpecUpsert == InitUpsert /\ [][NextUpsert]_vars

(* ------------------ the group of a community on its own ---------------- *)
\* arguments of get_or_create_cognito_group; n counts its calls, names holds
\* the names it returned
GroupArguments ==
    [id : 1..2, name : {Name1, Name2}, n : {0}, names : {{}}]

\* a user pool in which the group of community 1 or 2 may exist already
InitGroup ==
    /\ probe \in GroupArguments
    /\ groups \in {EmptyFn, GroupName(1) :> GroupDescription(Name1, 1),
                   GroupName(2) :> GroupDescription(Name2, 2)}
    /\ accounts = EmptyFn
    /\ tenants = {}
    /\ members = {}
    /\ file = [comms |-> << >>, rows |-> << >>, admin |-> NoEmail]
    /\ InitLocals

\* one more call of get_or_create_cognito_group for the same community
GetOrCreateGroupAgain ==
    /\ probe.n < MaxCalls
    /\ \E f \in 0..2 :
          LET g == GetOrCreateCognitoGroup(groups, probe.id, probe.name, f)
          IN  /\ Errors(g.calls) = (IF f > 0 THEN 1 ELSE 0)
              /\ Errors(g.calls) <= Budget
              /\ groups' = g.groups
              /\ log' = [log EXCEPT ![1] = @ \o g.calls]
              /\ faults' = faults + Errors(g.calls)
              /\ probe' = [probe EXCEPT !.n = @ + 1,
                                        !.names = IF g.ok THEN @ \cup {g.name}
                                                  ELSE @]
    /\ UNCHANGED <<file, tenants, members, accounts, pc, locals, exit_code,
                   reason, input>>

NextGroup == GetOrCreateGroupAgain

SpecGroup == InitGroup /\ [][NextGroup]_vars

(* ------------------- the name of a group on its own -------------------- *)
\* the characters community ids are made of here; "-" and "c" also occur in
\* the prefix
IdChars == {"1", "c", "-"}

\* non-empty ids (the guard skips a community without id, line 810; the run
\* stops without a community id, line 1466)
IdTexts == UNION {[1..k -> IdChars] : k \in 1..MaxIdLen}

\* two community ids, and the names derived so far for each of them
InitName ==
    /\ probe \in [ids : [1..2 -> IdTexts], names : {[k \in 1..2 |-> {}]},
                  by : {[k \in 1..2 |-> {}]}]
    /\ groups = EmptyFn
    /\ accounts = EmptyFn
    /\ tenants = {}
    /\ members = {}
    /\ file = [comms |-> << >>, rows |-> << >>, admin |-> NoEmail]
    /\ InitLocals

\* get_or_create_cognito_group derives the name of the group of community k
DeriveGroupName(k) ==
    /\ "group" \notin probe.by[k]
    /\ probe' = [probe EXCEPT
                    !.names[k] = @ \cup {GroupNameText(probe.ids[k])},
                    !.by[k] = @ \cup {"group"}]
    /\ UNCHANGED <<file, backend, pc, locals, log, exit_code, reason, input,
                   faults>>

\* check_community_group_exists derives the name of the group of community k
DeriveGuardGroupName(k) ==
    /\ "guard" \notin probe.by[k]
    /\ probe' = [probe EXCEPT
                    !.names[k] = @ \cup {GuardGroupNameText(probe.ids[k])},
                    !.by[k] = @ \cup {"guard"}]
    /\ UNCHANGED <<file, backend, pc, locals, log, exit_code, reason, input,
                   faults>>

NextName == \E k \in 1..2 : DeriveGroupName(k) \/ DeriveGuardGroupName(k)

SpecName == InitName /\ [][NextName]_vars

(* ============================== properties ============================= *)

\* C1, as stated: a run on a workbook that carries the processed marker (an
\* Admin Credentials record or a filled CommunityId cell) is aborted having
\* issued no call at all to the data backend or to the identity backend.
C1_AbortedWithNoCall ==
    \A r \in Runs :
        LET marked == \/ input[r].admin # NoEmail
                      \/ \E i \in DOMAIN input[r].rows : input[r].rows[i].cid # 0
        IN  (pc[r] = "aborted" /\ marked)
                => Ops(log[r]) \cap (DataOps \cup IdentityOps) = {}

\* C1, amended: a run on a workbook that carries the processed marker never
\* gets past the processed check: it ends aborted, and the only calls it has
\* issued to a backend are those of the sign-in (initiateAuth and, when a new
\* password is demanded, respondToChallenge); the data backend is not called.
C1_MarkedInputStopsAtCheck ==
    \A r \in Runs :
        LET marked == \/ input[r].admin # NoEmail
                      \/ \E i \in DOMAIN input[r].rows : input[r].rows[i].cid # 0
        IN  (pc[r] # "idle" /\ marked)
                => /\ pc[r] \in {"authed", "aborted"}
                   /\ Ops(log[r]) \cap (DataOps \cup IdentityOps)
                         \subseteq {"initiateAuth", "respondToChallenge"}

\* a signed-in run stopped by the marker of its workbook
C1_Witness ==
    \E r \in Runs :
        /\ reason[r] = "already processed"
        /\ \E i \in DOMAIN input[r].rows : input[r].rows[i].cid # 0
        /\ "initiateAuth" \in Ops(log[r])

\* C2: a mutating call is issued only after the processed check, the account
\* check and the group check have run, in that order, and none of them
\* tripped; a check that trips is the last check the run makes (the account
\* check still looks up the emails left), the run is aborted and has issued
\* no mutating call.
C2_GuardsBeforeMutation ==
    \A r \in Runs :
        LET l == log[r]
            guarding(i) == \A j \in 1..i : l[j].op # "createTenant"
            trip(e) == \/ e.op = "hasProcessedMarker" /\ e.res = "exists"
                       \/ e.op = "adminGetUser" /\ e.res = "ok"
                       \/ e.op = "getGroup" /\ e.res = "ok"
                       \/ e.op = "listGroups" /\ e.res = "exists"
        IN  /\ \A i \in DOMAIN l :
                 l[i].op \in MutatingOps =>
                    /\ \E a, b, c \in 1..(i - 1) :
                          /\ a < b /\ b < c
                          /\ l[a].op = "hasProcessedMarker"
                          /\ l[b].op = "adminGetUser"
                          /\ l[c].op = "listTenants"
                          /\ \A j \in 1..(i - 1) :
                                l[j].op = "adminGetUser" => a < j /\ j < c
                    /\ \A j \in 1..(i - 1) : guarding(j) => ~trip(l[j])
            /\ \A i \in DOMAIN l :
                 (guarding(i) /\ trip(l[i])) =>
                    /\ pc[r] = "aborted"
                    /\ \A j \in (i + 1)..Len(l) : l[j].op = "adminGetUser"
                    /\ l[i].op # "adminGetUser" => i = Len(l)
                    /\ Ops(l) \cap MutatingOps = {}
                    /\ community_id[r] = 0

\* a run stopped by the group check after the two checks before it passed
C2_Witness ==
    \E r \in Runs :
        /\ reason[r] = "group exists"
        /\ "adminGetUser" \in Ops(log[r])
        /\ Ops(log[r]) \cap MutatingOps = {}

\* C3: when the creation of the community fails the run is aborted there:
\* no group lookup or creation, no caretaker creation, no account call.
C3_TenantFailureStopsRun ==
    \A r \in Runs :
        \A i \in DOMAIN log[r] :
            (log[r][i].op = "createTenant" /\ log[r][i].res = "error") =>
                /\ pc[r] = "aborted"
                /\ i = Len(log[r])
                /\ community_id[r] = 0
                /\ Ops(log[r]) \cap {"createGroup", "createMember", "findMember",
                                     "adminCreateUser", "adminUpdateUserAttributes",
                                     "adminSetUserPassword", "adminAddUserToGroup"}
                      = {}

\* a run whose createCommunity mutation failed
C3_Witness ==
    \E r \in Runs :
        /\ reason[r] = "community creation failed"
        /\ \E i \in DOMAIN log[r] :
              log[r][i].op = "createTenant" /\ log[r][i].res = "error"

\* C4, as stated: a run on a workbook with one community and no caretaker
\* that passes the guards and meets no failing backend call ends done with
\* exactly one community created, exactly one group created, and no
\* caretaker record created in the data backend.
C4_DoneWithNoMember ==
    \A r \in Runs :
        LET l == log[r]
        IN  ( /\ pc[r] \in {"done", "aborted"}
              /\ Len(input[r].comms) = 1
              /\ \A i \in DOMAIN input[r].rows : input[r].rows[i].email = NoEmail
              /\ "createTenant" \in Ops(l)
              /\ \A i \in DOMAIN l :
                    l[i].op \in DataOps \cup IdentityOps => l[i].res # "error" )
            => /\ pc[r] = "done"
               /\ CountOp(l, "createTenant") = 1
               /\ CountOp(l, "createGroup") = 1
               /\ CountOp(l, "createMember") = 0

\* C4, amended: a run on a workbook with one community and no caretaker that
\* passes the guards, meets no failing backend call and is given a confirmed
\* admin password ends done with exactly one community created, exactly one
\* group created, no record of a regular caretaker, and exactly one
\* caretaker record: the admin's.
C4_DoneWithAdminMemberOnly ==
    \A r \in Runs :
        LET l == log[r]
        IN  ( /\ pc[r] \in {"done", "aborted"}
              /\ Len(input[r].comms) = 1
              /\ \A i \in DOMAIN input[r].rows : input[r].rows[i].email = NoEmail
              /\ "createTenant" \in Ops(l)
              /\ \A i \in DOMAIN l :
                    l[i].op \in DataOps \cup IdentityOps => l[i].res # "error"
              /\ reason[r] # "no admin password" )
            => /\ pc[r] = "done"
               /\ CountOp(l, "createTenant") = 1
               /\ Cardinality({t \in tenants : t.id = community_id[r]}) = 1
               /\ CountOp(l, "createGroup") = 1
               /\ GroupName(community_id[r]) \in DOMAIN groups
               /\ CountOp(l, "createMember") = 1
               /\ \E m \in members :
                     /\ m.email = AdminEmail(input[r].comms[1].name)
                     /\ {n \in members : n.communityId = community_id[r]} = {m}

\* a finished run on a workbook without caretakers
C4_Witness ==
    \E r \in Runs :
        /\ pc[r] = "done"
        /\ input[r].rows # << >>
        /\ \A i \in DOMAIN input[r].rows : input[r].rows[i].email = NoEmail
        /\ \A i \in DOMAIN log[r] : log[r][i].res # "error"

\* C5: when the registration of caretaker i in the user pool fails, the run
\* is aborted at that call: the caretaker record created just before stays
\* in the data backend, and nothing is issued for the caretakers after i or
\* for the admin.
C5_UpsertFailureStopsRun ==
    \A r \in Runs :
        \A i \in DOMAIN log[r] :
            LET e == log[r][i]
            IN  ( /\ e.res = "error"
                  /\ e.op \in {"adminCreateUser", "adminUpdateUserAttributes",
                               "adminAddUserToGroup"}
                  /\ e.email # AdminEmail(communities[r][1].name) )
                => /\ pc[r] = "aborted"
                   /\ reason[r] = "cognito registration failed"
                   /\ i = Len(log[r])
                   /\ \E m \in members : /\ m.email = e.email
                                         /\ m.communityId = community_id[r]
                   /\ \A j \in DOMAIN log[r] :
                         log[r][j].op = "createMember" =>
                            \E k \in 1..idx[r] :
                               caretakers[r][k].email = log[r][j].email

\* a run aborted by the registration of its first caretaker, with a second
\* caretaker still to come
C5_Witness ==
    \E r \in Runs :
        /\ reason[r] = "cognito registration failed"
        /\ idx[r] = 1
        /\ Len(caretakers[r]) = 2
        /\ \E m \in members : m.email = caretakers[r][1].email

\* C6: of the runs made one after the other on the same workbook, at most
\* one creates a community.
C6_NoSecondTenant ==
    \A r, q \in Runs : (community_id[r] # 0 /\ community_id[q] # 0) => r = q

\* C7, as stated: a run that reaches the account check while an account
\* exists under a caretaker's email or under the admin email is aborted by
\* that check.
C7_ExistingAccountAborts ==
    [][ \A r \in Runs :
          ( /\ pc[r] = "check_users"
            /\ \E e \in DOMAIN accounts :
                  \E i \in DOMAIN EmailsToCheck(communities[r], caretakers[r]) :
                     EmailsToCheck(communities[r], caretakers[r])[i] = e )
          => pc'[r] = "aborted" ]_vars

\* C7, amended: a run whose account check finds an account (the lookup of a
\* caretaker's email or of the admin email returns a user) is aborted and
\* creates no community, group, caretaker or account.
C7_FoundAccountAborts ==
    \A r \in Runs :
        (\E i \in DOMAIN log[r] :
            log[r][i].op = "adminGetUser" /\ log[r][i].res = "ok")
        => /\ pc[r] = "aborted"
           /\ reason[r] = "users exist"
           /\ community_id[r] = 0
           /\ Ops(log[r]) \cap MutatingOps = {}

\* a run aborted because the admin email, looked up last, has an account
C7_Witness ==
    \E r \in Runs :
        /\ reason[r] = "users exist"
        /\ Len(caretakers[r]) > 0
        /\ Len(communities[r]) = 1
        /\ log[r][Len(log[r])].res = "ok"
        /\ log[r][Len(log[r])].email = AdminEmail(communities[r][1].name)

\* C8: a run issues createTenant at most once, and a run on a workbook with
\* no community or with more than one issues no mutating call and does not
\* end done.
C8_ExactlyOneTenant ==
    \A r \in Runs :
        /\ CountOp(log[r], "createTenant") <= 1
        /\ (pc[r] # "idle" /\ Len(input[r].comms) # 1)
              => /\ Ops(log[r]) \cap MutatingOps = {}
                 /\ pc[r] # "done"
                 /\ pc[r] \notin {"create_community", "create_group", "caretakers"}

\* a run aborted, after its guards passed, for holding two communities
C8_Witness ==
    \E r \in Runs :
        /\ reason[r] = "multiple communities"
        /\ Len(input[r].comms) = 2
        /\ "listTenants" \in Ops(log[r])

\* C9: every caretaker record sent to the data backend, a regular caretaker's
\* or the admin's, carries the id the createCommunity of this run returned.
C9_MemberCarriesTenantId ==
    \A r \in Runs :
        /\ \A i \in DOMAIN log[r] :
              log[r][i].op = "createMember" =>
                 /\ community_id[r] # 0
                 /\ log[r][i].id = community_id[r]
                 /\ \E j \in 1..(i - 1) : /\ log[r][j].op = "createTenant"
                                          /\ log[r][j].res = "ok"
                                          /\ log[r][j].id = log[r][i].id
        /\ \A m \in members :
              \E q \in Runs : community_id[q] # 0 /\ m.communityId = community_id[q]

\* a finished run that sent a regular caretaker's record and the admin's
C9_Witness ==
    \E r \in Runs :
        /\ pc[r] = "done"
        /\ CountOp(log[r], "createMember") >= 2
        /\ Cardinality({m \in members : m.communityId = community_id[r]}) >= 2

\* C10: in a user pool without an account under the email, two calls of the
\* upsert with the same arguments that both return True leave the user pool
\* as the first of them left it; for the plain and for the verified variant.
C10_UpsertIdempotent == probe.n = 2 => accounts = probe.after1

\* the upsert returned True twice, the second time on the update path
C10_Witness ==
    /\ probe.n = 2
    /\ "adminUpdateUserAttributes" \in Ops(log[1])
    /\ probe.email \in DOMAIN accounts
    /\ probe.g \in accounts[probe.email].groups

\* C11: get_or_create_cognito_group issues createGroup only right after its
\* lookup answered not-found, a lookup that fails otherwise is followed by no
\* createGroup of that call, and calls repeated for one community return one
\* and the same name and create the group at most once.
C11_GetOrCreateGroupOnce ==
    LET l == log[1]
    IN  /\ \A i \in DOMAIN l :
              l[i].op = "createGroup" =>
                 /\ i > 1
                 /\ l[i - 1].op = "getGroup"
                 /\ l[i - 1].res = "notfound"
                 /\ l[i - 1].id = l[i].id
        /\ \A i \in DOMAIN l :
              (l[i].op = "getGroup" /\ l[i].res = "error" /\ i < Len(l))
                 => l[i + 1].op = "getGroup"
        /\ Cardinality({i \in DOMAIN l :
                           l[i].op = "createGroup" /\ l[i].res = "ok"}) <= 1
        /\ Cardinality(probe.names) <= 1
        /\ \A g \in probe.names : g = GroupName(probe.id) /\ g \in DOMAIN groups

\* the group was created by one call and found by a later one, with a failed
\* lookup in between
C11_Witness ==
    /\ probe.n = MaxCalls
    /\ Cardinality(probe.names) = 1
    /\ \E i, j, k \in DOMAIN log[1] :
          /\ i < j /\ j < k
          /\ log[1][i].op = "createGroup" /\ log[1][i].res = "ok"
          /\ log[1][j].op = "getGroup" /\ log[1][j].res = "error"
          /\ log[1][k].op = "getGroup" /\ log[1][k].res = "ok"

\* C12: the names derived for one community id, by get_or_create_cognito_group
\* and by the guard's group check, are one and the same name, and the names
\* derived for two different community ids differ.
C12_GroupNameInjective ==
    /\ \A k \in 1..2 : Cardinality(probe.names[k]) <= 1
    /\ probe.ids[1] = probe.ids[2] =>
          Cardinality(probe.names[1] \cup probe.names[2]) <= 1
    /\ probe.ids[1] # probe.ids[2] => probe.names[1] \cap probe.names[2] = {}

\* both functions derived the names of two different ids, one of which
\* continues the other
C12_Witness ==
    /\ probe.by = [k \in 1..2 |-> {"group", "guard"}]
    /\ probe.ids[1] # probe.ids[2]
    /\ Len(probe.ids[1]) < Len(probe.ids[2])
    /\ SubSeq(probe.ids[2], 1, Len(probe.ids[1])) = probe.ids[1]
    /\ probe.names[1] # {} /\ probe.names[2] # {}

\* C13: a createMember that fails for a regular caretaker does not abort the
\* run: no verification and no account call is issued for that caretaker,
\* the next call, if there is one, is the createMember of the next caretaker
\* or, after the last caretaker, the first call for the admin, and in a run
\* that ends done the summary counts as failed exactly the caretakers whose
\* createMember failed, with created + failed = total.
C13_MemberFailureContinues ==
    \A r \in Runs :
        LET l == log[r]
            failed == {i \in DOMAIN l :
                          /\ l[i].op = "createMember"
                          /\ l[i].res = "error"
                          /\ \E k \in DOMAIN caretakers[r] :
                                caretakers[r][k].email = l[i].email}
        IN  /\ \A i \in failed :
                  LET k == CHOOSE k \in DOMAIN caretakers[r] :
                                caretakers[r][k].email = l[i].email
                  IN  /\ \A j \in DOMAIN l :
                            (j # i /\ l[j].email = l[i].email)
                               => l[j].op = "adminGetUser" /\ j < i
                      /\ i = Len(l) =>
                            \/ pc[r] = "caretakers" /\ idx[r] = k
                            \/ /\ reason[r] = "no admin password"
                               /\ k = Len(caretakers[r])
                      /\ i < Len(l) =>
                            IF k < Len(caretakers[r])
                            THEN /\ l[i + 1].op = "createMember"
                                 /\ l[i + 1].email = caretakers[r][k + 1].email
                            ELSE /\ l[i + 1].op = "adminCreateUser"
                                 /\ l[i + 1].email = AdminEmail(communities[r][1].name)
            /\ pc[r] = "done" =>
                  /\ summary[r].caretakers.failed = Cardinality(failed)
                  /\ summary[r].caretakers.total = Len(caretakers[r])
                  /\ summary[r].caretakers.created + summary[r].caretakers.failed
                        = summary[r].caretakers.total

\* a finished run whose first caretaker failed and whose second was created
C13_Witness ==
    \E r \in Runs :
        /\ pc[r] = "done"
        /\ Len(caretakers[r]) = 2
        /\ summary[r].caretakers.failed = 1
        /\ summary[r].caretakers.created = 1
        /\ \E i \in DOMAIN log[r] :
              /\ log[r][i].op = "createMember" /\ log[r][i].res = "error"
              /\ log[r][i].email = caretakers[r][1].email
        /\ caretakers[r][2].email \in DOMAIN accounts

\* C14, as stated: when initiate_auth is answered with a challenge, a forced
\* password change included, no respondToChallenge is issued and the run is
\* aborted before any guard check and any change in a backend.
C14_EveryChallengeRejected ==
    \A r \in Runs :
        (\E i \in DOMAIN log[r] :
            /\ log[r][i].op = "initiateAuth"
            /\ log[r][i].res \in {"challenge", "new_password_required"})
        => /\ pc[r] = "aborted"
           /\ reason[r] = "authentication failed"
           /\ "respondToChallenge" \notin Ops(log[r])
           /\ Len(log[r]) = 1

\* C14, amended: a challenge other than NEW_PASSWORD_REQUIRED is rejected:
\* no respondToChallenge is issued and the run is aborted with initiate_auth
\* as its only call.  respondToChallenge is issued only as the call right
\* after an initiate_auth answered NEW_PASSWORD_REQUIRED; the run goes on to
\* the guards exactly when that call succeeds, and is aborted with no
\* further call when it fails or when the new password is not confirmed.
C14_OnlyPasswordChangeAnswered ==
    \A r \in Runs :
        LET l == log[r]
            authFailed == /\ pc[r] = "aborted"
                          /\ reason[r] = "authentication failed"
        IN  /\ (l # << >> /\ l[1].op = "initiateAuth" /\ l[1].res = "challenge")
                  => authFailed /\ Len(l) = 1
            /\ \A i \in DOMAIN l :
                  l[i].op = "respondToChallenge" =>
                     /\ i = 2
                     /\ l[1].op = "initiateAuth"
                     /\ l[1].res = "new_password_required"
                     /\ l[i].res = "error" => authFailed /\ Len(l) = 2
            /\ (l # << >> /\ l[1].res = "new_password_required") =>
                  \/ authFailed /\ Len(l) = 1
                  \/ Len(l) >= 2 /\ l[2].op = "respondToChallenge"
            /\ \A i \in DOMAIN l : l[i].op = "initiateAuth" => i = 1

\* a run that changed the operator's password on a challenge and went on to
\* create a community
C14_Witness ==
    \E r \in Runs :
        /\ Len(log[r]) > 2
        /\ log[r][1].res = "new_password_required"
        /\ log[r][2].op = "respondToChallenge"
        /\ log[r][2].res = "ok"
        /\ community_id[r] # 0

\* C15: the exit code of a run that has ended is 0 exactly when the run ended
\* done, and is not 0 when it was aborted, whatever aborted it.
C15_ExitCodeTellsOutcome ==
    \A r \in Runs :
        pc[r] \in {"done", "aborted"} => (exit_code[r] = 0 <=> pc[r] = "done")

\* C16: when the verification of a regular caretaker, made after its
\* createMember succeeded, finds nothing or fails, the run is not aborted by
\* it: the next call is the creation of the account of that same caretaker,
\* and a run aborted later was aborted by a later call that failed or by the
\* admin password.
C16_MemberVerificationNotFatal ==
    \A r \in Runs :
        LET l == log[r]
        IN  \A i \in DOMAIN l :
               ( /\ l[i].op = "findMember"
                 /\ l[i].res = "error"
                 /\ \E k \in DOMAIN caretakers[r] :
                       caretakers[r][k].email = l[i].email )
               => /\ i > 1
                  /\ l[i - 1].op = "createMember"
                  /\ l[i - 1].res = "ok"
                  /\ l[i - 1].email = l[i].email
                  /\ i < Len(l)
                  /\ l[i + 1].op = "adminCreateUser"
                  /\ l[i + 1].email = l[i].email
                  /\ pc[r] = "aborted" =>
                        \/ \E j \in (i + 1)..Len(l) : l[j].res = "error"
                        \/ reason[r] = "no admin password"

\* a finished run in which the verification of a caretaker failed and the
\* caretaker has an account in the group of the community
C16_Witness ==
    \E r \in Runs :
        /\ pc[r] = "done"
        /\ \E i \in DOMAIN log[r] :
              /\ log[r][i].op = "findMember"
              /\ log[r][i].res = "error"
              /\ log[r][i].email \in DOMAIN accounts
              /\ cognito_group_name[r] \in accounts[log[r][i].email].groups
              /\ \E k \in DOMAIN caretakers[r] :
                    caretakers[r][k].email = log[r][i].email

\* C17: a call that fails while the account or the caretaker record of the
\* admin is created aborts the run at that call, and a run that ends done
\* has created both: the admin has an account in the group of the community
\* and a caretaker record of the community.
C17_AdminFailureFatal ==
    \A r \in Runs :
        LET l == log[r]
            admin == AdminEmail(communities[r][1].name)
        IN  Len(communities[r]) = 1 =>
               /\ \A i \in DOMAIN l :
                     ( /\ l[i].email = admin
                       /\ l[i].res = "error"
                       /\ l[i].op \in MutatingOps )
                     => /\ pc[r] = "aborted"
                        /\ i = Len(l)
                        /\ reason[r] = IF l[i].op = "createMember"
                                       THEN "admin caretaker creation failed"
                                       ELSE "admin user creation failed"
               /\ pc[r] = "done" =>
                     /\ admin \in DOMAIN accounts
                     /\ cognito_group_name[r] \in accounts[admin].groups
                     /\ accounts[admin].pwd.state = "permanent"
                     /\ \E m \in members : /\ m.email = admin
                                           /\ m.communityId = community_id[r]
                     /\ \E i, j \in DOMAIN l :
                           /\ i < j
                           /\ l[i].op = "adminAddUserToGroup" /\ l[i].email = admin
                           /\ l[i].res = "ok"
                           /\ l[j].op = "createMember" /\ l[j].email = admin
                           /\ l[j].res = "ok"

\* a run aborted because the caretaker record of the admin could not be
\* created, after the account of the admin was
C17_Witness ==
    \E r \in Runs :
        /\ reason[r] = "admin caretaker creation failed"
        /\ Len(communities[r]) = 1
        /\ AdminEmail(communities[r][1].name) \in DOMAIN accounts
        /\ \A m \in members : m.email # AdminEmail(communities[r][1].name)

\* C18, as stated: when the verification of the caretaker record of the
\* admin, made after its creation succeeded, finds nothing or fails, the run
\* is aborted.
C18_AdminVerificationFatal ==
    \A r \in Runs :
        \A i \in DOMAIN log[r] :
            ( /\ Len(communities[r]) = 1
              /\ log[r][i].op = "findMember"
              /\ log[r][i].res = "error"
              /\ log[r][i].email = AdminEmail(communities[r][1].name) )
            => pc[r] = "aborted"

\* C18, amended: the verification of the caretaker record of the admin is
\* as little fatal as that of a regular caretaker: when it finds nothing or
\* fails, the run goes on to write the admin credentials to the workbook and
\* ends done with exit code 0.
C18_AdminVerificationNotFatal ==
    \A r \in Runs :
        LET l == log[r]
        IN  \A i \in DOMAIN l :
               ( /\ Len(communities[r]) = 1
                 /\ l[i].op = "findMember"
                 /\ l[i].res = "error"
                 /\ l[i].email = AdminEmail(communities[r][1].name) )
               => /\ l[i - 1].op = "createMember"
                  /\ l[i - 1].res = "ok"
                  /\ l[i - 1].email = l[i].email
                  /\ i + 1 = Len(l)
                  /\ l[i + 1].op = "writeBackAdminCredentials"
                  /\ pc[r] = "done"
                  /\ exit_code[r] = 0

\* a finished run whose verification of the admin's record failed and whose
\* workbook holds the admin credentials
C18_Witness ==
    \E r \in Runs :
        /\ pc[r] = "done"
        /\ Len(log[r]) > 2
        /\ log[r][Len(log[r]) - 1].op = "findMember"
        /\ log[r][Len(log[r]) - 1].res = "error"
        /\ log[r][Len(log[r])].res = "ok"
        /\ file.admin = AdminEmail(communities[r][1].name)

\* C19, as stated: a run on a workbook with no community or with more than
\* one issues none of the guards' backend calls (account lookup, community
\* listing, group lookup, group listing), and once it has read the workbook
\* it is aborted for its input and for nothing else.
C19_ValidationBeforeGuards ==
    \A r \in Runs :
        Len(input[r].comms) # 1 =>
           /\ Ops(log[r]) \cap {"adminGetUser", "listTenants", "getGroup",
                                 "listGroups"} = {}
           /\ (pc[r] = "aborted" /\ "readRecords" \in Ops(log[r])
                               /\ reason[r] # "exception")
                 => reason[r] \in {"no community", "multiple communities"}

\* C19, amended: the count of communities is validated after the guards and
\* before anything is created.  A run on a workbook with no community or
\* with more than one creates nothing and does not end done; when it is
\* aborted for its input, the guards have run before: every caretaker's
\* email was looked up, and with several communities the first one was
\* taken for the admin email that was looked up and for the group check
\* (community listing, group listing), while with no community no group
\* check was made.
C19_ValidationAfterGuards ==
    \A r \in Runs :
        LET l == log[r]
            lookedUp(e) == \E i \in DOMAIN l :
                              l[i].op = "adminGetUser" /\ l[i].email = e
        IN  /\ Len(input[r].comms) # 1 =>
                  /\ Ops(l) \cap MutatingOps = {}
                  /\ pc[r] # "done"
            /\ reason[r] \in {"no community", "multiple communities"} =>
                  /\ Len(input[r].comms) # 1
                  /\ (reason[r] = "no community") = (Len(input[r].comms) = 0)
                  /\ \A k \in DOMAIN caretakers[r] : lookedUp(caretakers[r][k].email)
                  /\ \A i \in DOMAIN l : l[i].op = "adminGetUser" => l[i].res # "ok"
                  /\ IF Len(input[r].comms) = 0
                     THEN Ops(l) \cap {"listTenants", "getGroup", "listGroups"} = {}
                     ELSE /\ lookedUp(AdminEmail(input[r].comms[1].name))
                          /\ ~lookedUp(AdminEmail(input[r].comms[2].name))
                          /\ "listTenants" \in Ops(l)
                          /\ "listGroups" \in Ops(l)

\* a run aborted for its two communities after the admin email of the first
\* and the email of a caretaker were looked up and the groups were listed
C19_Witness ==
    \E r \in Runs :
        /\ reason[r] = "multiple communities"
        /\ Len(caretakers[r]) > 0
        /\ CountOp(log[r], "adminGetUser") = Len(caretakers[r]) + 1
        /\ "listGroups" \in Ops(log[r])

\* C20: the group check lists the groups only when its listing of the
\* communities failed.
C20_ListGroupsOnlyAsFallback ==
    \A r \in Runs :
        \A i \in DOMAIN log[r] :
            log[r][i].op = "listGroups" =>
               \E j \in 1..(i - 1) : /\ log[r][j].op = "listTenants"
                                      /\ log[r][j].res = "error"

\* C21: when the lookup or the creation of the group fails after the
\* community was created, the run is aborted at that call: the call is not
\* issued again, the community is in the data backend, its group is not in
\* the user pool, and no caretaker record and no account is created.
C21_GroupFailureStopsRun ==
    \A r \in Runs :
        LET l == log[r]
        IN  \A i \in DOMAIN l :
               ( /\ l[i].op \in {"getGroup", "createGroup"}
                 /\ l[i].res = "error"
                 /\ \E j \in 1..(i - 1) : l[j].op = "createTenant" /\ l[j].res = "ok" )
               => /\ pc[r] = "aborted"
                  /\ reason[r] = "group creation failed"
                  /\ exit_code[r] = 1
                  /\ i = Len(l)
                  /\ Cardinality({j \in DOMAIN l : j < i /\ l[j].op = l[i].op
                                                    /\ l[j].id = l[i].id}) = 0
                  /\ l[i].id = community_id[r]
                  /\ \E t \in tenants : t.id = community_id[r]
                  /\ GroupName(community_id[r]) \notin DOMAIN groups
                  /\ cognito_group_name[r] = << >>
                  /\ Ops(l) \cap {"createMember", "findMember", "adminCreateUser",
                                   "adminUpdateUserAttributes", "adminSetUserPassword",
                                   "adminAddUserToGroup"} = {}

\* a run aborted by a failed group lookup, with its community created and
\* caretakers waiting
C21_Witness ==
    \E r \in Runs :
        /\ reason[r] = "group creation failed"
        /\ Len(caretakers[r]) > 0
        /\ log[r][Len(log[r])].op = "getGroup"
        /\ \E t \in tenants : t.id = community_id[r]

\* C22: a run goes through its stages in one fixed order, sign-in, guards
\* (processed check, account check, group check, validation), community,
\* group, caretakers in the order of the input, admin, done: each step
\* leads to the next stage or to aborted, a run that has ended stays as it
\* is, the caretakers are taken one by one, every createMember comes after
\* the group of the community was found or created, and the calls for the
\* admin come after the last caretaker's.
C22_FixedOrder ==
    [][ LET Rank(p) == CASE p = "idle" -> 0
                         [] p = "authed" -> 1
                         [] p = "check_users" -> 2
                         [] p = "check_group" -> 3
                         [] p = "validate" -> 4
                         [] p = "create_community" -> 5
                         [] p = "create_group" -> 6
                         [] p = "caretakers" -> 7
                         [] p = "done" -> 8
                         [] OTHER -> 9
            \* the calls l of a run, given its caretakers cts, its communities
            \* cms, its community id, its group name g and its position ix
            InOrder(l, cts, cms, id, g, ix) ==
                LET Row(e) == CHOOSE k \in DOMAIN cts : cts[k].email = e
                    Regular(i) == /\ l[i].op = "createMember"
                                  /\ \E k \in DOMAIN cts : cts[k].email = l[i].email
                IN  /\ \A i \in DOMAIN l :
                          l[i].op = "createMember" =>
                             /\ g = GroupName(id)
                             /\ \E j, k \in 1..(i - 1) :
                                   /\ j < k
                                   /\ l[j].op = "createTenant" /\ l[j].res = "ok"
                                   /\ l[k].op \in {"getGroup", "createGroup"}
                                   /\ l[k].res = "ok"
                                   /\ l[k].id = id
                    /\ \A i, j \in DOMAIN l :
                          (i < j /\ Regular(i) /\ Regular(j)) =>
                             Row(l[i].email) < Row(l[j].email)
                    /\ \A i \in DOMAIN l :
                          ( /\ l[i].op \in MutatingOps
                            /\ Len(cms) = 1
                            /\ l[i].email = AdminEmail(cms[1].name) )
                          => /\ ix = Len(cts)
                             /\ \A j \in DOMAIN l : Regular(j) => j < i
        IN  \A r \in Runs :
                 /\ pc[r] \in {"done", "aborted"} =>
                       pc'[r] = pc[r] /\ log'[r] = log[r]
                 /\ pc'[r] # pc[r] =>
                       \/ pc'[r] = "aborted"
                       \/ Rank(pc'[r]) = Rank(pc[r]) + 1
                 /\ idx'[r] \in {idx[r], idx[r] + 1}
                 /\ idx'[r] # idx[r] => pc[r] = "caretakers"
                 /\ pc'[r] = "done" =>
                       pc[r] = "caretakers" /\ idx[r] = Len(caretakers[r])
                 /\ InOrder(log'[r], caretakers'[r], communities'[r],
                            community_id'[r], cognito_group_name'[r], idx'[r]) ]_vars

\* a finished run whose two caretakers were created in the order of the
\* input, before the admin
C22_Witness ==
    \E r \in Runs :
        /\ pc[r] = "done"
        /\ idx[r] = 2
        /\ \E i, j, k \in DOMAIN log[r] :
              /\ i < j /\ j < k
              /\ log[r][i].op = "createMember" /\ log[r][i].res = "ok"
              /\ log[r][i].email = caretakers[r][1].email
              /\ log[r][j].op = "createMember" /\ log[r][j].res = "ok"
              /\ log[r][j].email = caretakers[r][2].email
              /\ log[r][k].op = "createMember" /\ log[r][k].res = "ok"
              /\ log[r][k].email = AdminEmail(communities[r][1].name)

\* C23, as stated: in the step of a regular caretaker the calls come in the
\* order createMember, verification, account; the account calls of a
\* caretaker are issued only if its createMember succeeded; and the
\* createMember of the caretaker after it is issued only after the account
\* of this caretaker was created and put into the group with success.
C23_NextMemberAfterUpsert ==
    \A r \in Runs :
        LET l == log[r]
            cts == caretakers[r]
        IN  /\ \A i \in DOMAIN l :
                  (l[i].op = "adminCreateUser"
                     /\ \E k \in DOMAIN cts : cts[k].email = l[i].email)
                  => /\ i > 2
                     /\ l[i - 1].op = "findMember" /\ l[i - 1].email = l[i].email
                     /\ l[i - 2].op = "createMember" /\ l[i - 2].res = "ok"
                     /\ l[i - 2].email = l[i].email
            /\ \A i \in DOMAIN l : \A k \in DOMAIN cts :
                  (l[i].op = "createMember" /\ k > 1 /\ l[i].email = cts[k].email)
                  => \E j \in 1..(i - 1) :
                        /\ l[j].op = "adminAddUserToGroup"
                        /\ l[j].res = "ok"
                        /\ l[j].email = cts[k - 1].email

\* C23, amended: in the step of a regular caretaker the calls come in the
\* order createMember, verification, account; verification and account
\* calls are issued only if the createMember succeeded; and the createMember
\* of the caretaker after it is the very next call either after the failed
\* createMember of this caretaker or after this caretaker was put into the
\* group with success.
C23_NextMemberAfterStep ==
    \A r \in Runs :
        LET l == log[r]
            cts == caretakers[r]
        IN  /\ \A i \in DOMAIN l :
                  (l[i].op = "adminCreateUser"
                     /\ \E k \in DOMAIN cts : cts[k].email = l[i].email)
                  => /\ i > 2
                     /\ l[i - 1].op = "findMember" /\ l[i - 1].email = l[i].email
                     /\ l[i - 2].op = "createMember" /\ l[i - 2].res = "ok"
                     /\ l[i - 2].email = l[i].email
            /\ \A i \in DOMAIN l :
                  (l[i].op = "findMember"
                     /\ \E k \in DOMAIN cts : cts[k].email = l[i].email)
                  => /\ l[i - 1].op = "createMember" /\ l[i - 1].res = "ok"
                     /\ l[i - 1].email = l[i].email
                     /\ i < Len(l) /\ l[i + 1].op = "adminCreateUser"
            /\ \A i \in DOMAIN l : \A k \in DOMAIN cts :
                  (l[i].op = "createMember" /\ k > 1 /\ l[i].email = cts[k].email)
                  => /\ l[i - 1].email = cts[k - 1].email
                     /\ \/ l[i - 1].op = "createMember" /\ l[i - 1].res = "error"
                        \/ l[i - 1].op = "adminAddUserToGroup" /\ l[i - 1].res = "ok"

\* the second caretaker's record was sent right after the first caretaker,
\* whose verification had failed, was put into the group
C23_Witness ==
    \E r \in Runs :
        /\ Len(caretakers[r]) = 2
        /\ \E i \in DOMAIN log[r] :
              /\ i > 4
              /\ log[r][i].op = "createMember"
              /\ log[r][i].email = caretakers[r][2].email
              /\ log[r][i - 1].op = "adminAddUserToGroup"
              /\ log[r][i - 1].res = "ok"
              /\ log[r][i - 2].op = "adminCreateUser"
              /\ log[r][i - 3].op = "findMember"
              /\ log[r][i - 3].res = "error"
              /\ log[r][i - 4].op = "createMember"
              /\ log[r][i - 4].email = caretakers[r][1].email

\* C24: for the admin the account comes first: the createMember of the
\* admin is the very next call after the admin was put into the group with
\* success, and it is not issued when the account calls failed; a run
\* aborted at the admin's createMember leaves the admin's account in the
\* user pool and no caretaker record of the admin in the data backend.
C24_AdminAccountBeforeRecord ==
    \A r \in Runs :
        LET l == log[r]
            admin == AdminEmail(communities[r][1].name)
        IN  Len(communities[r]) = 1 =>
               /\ \A i \in DOMAIN l :
                     (l[i].op = "createMember" /\ l[i].email = admin)
                     => /\ i > 3
                        /\ l[i - 1].op = "adminAddUserToGroup"
                        /\ l[i - 1].res = "ok"
                        /\ l[i - 1].email = admin
                        /\ l[i - 2].op = "adminSetUserPassword"
                        /\ l[i - 2].res = "ok"
                        /\ \E j \in 1..(i - 3) :
                              l[j].op = "adminCreateUser" /\ l[j].email = admin
                                 /\ l[j].res \in {"ok", "exists"}
                        /\ admin \in DOMAIN accounts
               /\ reason[r] = "admin user creation failed" =>
                     \A i \in DOMAIN l :
                        ~(l[i].op = "createMember" /\ l[i].email = admin)
               /\ reason[r] = "admin caretaker creation failed" =>
                     /\ admin \in DOMAIN accounts
                     /\ accounts[admin].verified
                     /\ cognito_group_name[r] \in accounts[admin].groups
                     /\ \A m \in members : m.email # admin

\* a run aborted at the createMember of the admin, issued right after the
\* admin was given the password and put into the group
C24_Witness ==
    \E r \in Runs :
        /\ reason[r] = "admin caretaker creation failed"
        /\ Len(log[r]) > 3
        /\ log[r][Len(log[r])].op = "createMember"
        /\ log[r][Len(log[r])].res = "error"
        /\ log[r][Len(log[r]) - 1].op = "adminAddUserToGroup"
        /\ log[r][Len(log[r]) - 1].res = "ok"
        /\ accounts[log[r][Len(log[r])].email].pwd.state = "permanent"

\* C25: no step of a run takes anything back: every community, caretaker
\* record, group and account that is in a backend before a step is there
\* after it, the groups with their descriptions and the accounts with their
\* group memberships; a run that has ended changes nothing; and after every
\* step, an aborting one included, the community the run created and every
\* group, caretaker record and account whose creation succeeded are in the
\* backends as they were created.
C25_NothingTakenBack ==
    [][ /\ tenants \subseteq tenants'
        /\ members \subseteq members'
        /\ \A g \in DOMAIN groups :
              g \in DOMAIN groups' /\ groups'[g] = groups[g]
        /\ \A e \in DOMAIN accounts :
              /\ e \in DOMAIN accounts'
              /\ accounts[e].groups \subseteq accounts'[e].groups
        /\ \A r \in Runs :
              LET l == log'[r]
                  id == community_id'[r]
              IN  /\ pc[r] \in {"done", "aborted"} =>
                        l = log[r] /\ pc'[r] = pc[r]
                  /\ id # 0 =>
                        \E t \in tenants' :
                           /\ t.id = id
                           /\ t.name = communities'[r][1].name
                           /\ t.email = communities'[r][1].email
                  /\ \A i \in DOMAIN l :
                        /\ (l[i].op = "createGroup" /\ l[i].res = "ok") =>
                              /\ GroupName(l[i].id) \in DOMAIN groups'
                              /\ groups'[GroupName(l[i].id)] =
                                    GroupDescription(communities'[r][1].name, l[i].id)
                        /\ (l[i].op = "createMember" /\ l[i].res = "ok") =>
                              \E m \in members' : /\ m.email = l[i].email
                                                   /\ m.communityId = l[i].id
                        /\ (l[i].op = "adminCreateUser" /\ l[i].res = "ok") =>
                              l[i].email \in DOMAIN accounts' ]_vars

\* a run aborted at its second caretaker: the community, its group, both
\* caretaker records and the first caretaker's account are in the backends
C25_Witness ==
    \E r \in Runs :
        /\ pc[r] = "aborted"
        /\ idx[r] = 2
        /\ \E t \in tenants : t.id = community_id[r]
        /\ cognito_group_name[r] \in DOMAIN groups
        /\ \A k \in 1..2 : \E m \in members : m.email = caretakers[r][k].email
        /\ caretakers[r][1].email \in DOMAIN accounts
        /\ cognito_group_name[r] \in accounts[caretakers[r][1].email].groups

\* C26: nothing holds a run back once it has passed its guards: a run that
\* is about to create its community can always do so, whatever another run
\* on the same workbook has created in the meantime, and two runs that both
\* created a community created two communities, with two ids, for the one
\* community of the workbook.
C26_NoMutualExclusion ==
    /\ \A r \in 1..2 : pc[r] = "create_community" => ENABLED CreateCommunity(r)
    /\ \A r, q \in 1..2 :
          (r # q /\ community_id[r] # 0 /\ community_id[q] # 0) =>
             /\ community_id[r] # community_id[q]
             /\ \E t, u \in tenants :
                   /\ t.id = community_id[r]
                   /\ u.id = community_id[q]
                   /\ t.email = u.email
                   /\ t.email = file.comms[1].email

\* both runs passed the three guards and both created a community
C26_Witness ==
    /\ \A r \in 1..2 :
          /\ community_id[r] # 0
          /\ \E i, j, k \in DOMAIN log[r] :
                /\ i < j /\ j < k
                /\ log[r][i].op = "hasProcessedMarker" /\ log[r][i].res = "notfound"
                /\ log[r][j].op = "listGroups" /\ log[r][j].res = "ok"
                /\ log[r][k].op = "createTenant" /\ log[r][k].res = "ok"
          /\ \A i \in DOMAIN log[r] : log[r][i].res # "error"
    /\ Cardinality(tenants) = 2

\* C27: when every call and every prompt returns, the run ends: from some
\* point on it is done or aborted for good, and once it is done or aborted
\* it issues no further call and changes nothing in the backends or the
\* workbook.
C27_RunEnds ==
    /\ <>[](pc[1] \in {"done", "aborted"})
    /\ [][ pc[1] \in {"done", "aborted"} =>
              /\ pc'[1] = pc[1]
              /\ log'[1] = log[1]
              /\ exit_code'[1] = exit_code[1]
              /\ <<file, tenants, members, accounts, groups>>' =
                    <<file, tenants, members, accounts, groups>> ]_vars

\* a run that has ended done after all its steps, with its exit code set
C27_Witness ==
    /\ pc[1] = "done"
    /\ exit_code[1] = 0
    /\ idx[1] = Len(caretakers[1])
    /\ Len(caretakers[1]) = MaxMembers
    /\ summary[1] # << >>

\* C28, as stated: in a run that ends done the summary's failure count is
\* the number of caretakers whose createMember failed plus the number of
\* caretakers whose verification raised an alarm.
C28_AlarmsCounted ==
    \A r \in Runs :
        LET l == log[r]
            isMember(i) == \E k \in DOMAIN caretakers[r] :
                              caretakers[r][k].email = l[i].email
            failures == {i \in DOMAIN l : /\ l[i].op = "createMember"
                                          /\ l[i].res = "error"
                                          /\ isMember(i)}
            alarms == {i \in DOMAIN l : /\ l[i].op = "findMember"
                                        /\ l[i].res = "error"
                                        /\ isMember(i)}
        IN  pc[r] = "done" =>
                summary[r].caretakers.failed =
                    Cardinality(failures) + Cardinality(alarms)

\* C28, amended: of the conditions that do not stop a run, only a failed
\* createMember reaches the summary of a run that ends done. A caretaker
\* whose verification raised an alarm was created just before and is
\* counted as created, so the failure count is the number of failed
\* createMember calls whatever the number of alarms, and a failed write of
\* the workbook changes no count either.
C28_OnlyCreationFailuresCounted ==
    \A r \in Runs :
        LET l == log[r]
            isMember(i) == \E k \in DOMAIN caretakers[r] :
                              caretakers[r][k].email = l[i].email
            failures == {i \in DOMAIN l : /\ l[i].op = "createMember"
                                          /\ l[i].res = "error"}
            alarms == {i \in DOMAIN l : /\ l[i].op = "findMember"
                                        /\ l[i].res = "error"
                                        /\ isMember(i)}
        IN  pc[r] = "done" =>
                /\ summary[r].caretakers.failed = Cardinality(failures)
                /\ summary[r].caretakers.created >= Cardinality(alarms)
                /\ \A i \in alarms :
                      /\ i > 1
                      /\ l[i - 1].op = "createMember"
                      /\ l[i - 1].res = "ok"
                      /\ l[i - 1].email = l[i].email
                /\ summary[r].communities.failed = 0

\* a run that ends done after one caretaker failed to be created and the
\* verification of another raised an alarm
C28_Witness ==
    \E r \in Runs :
        /\ pc[r] = "done"
        /\ summary[r].caretakers.failed = 1
        /\ summary[r].caretakers.created = 1
        /\ \E i \in DOMAIN log[r] :
              /\ log[r][i].op = "findMember"
              /\ log[r][i].res = "error"
              /\ \E k \in DOMAIN caretakers[r] :
                    caretakers[r][k].email = log[r][i].email

\* C29: the id of the new community is written back to the workbook exactly
\* once, right after a createTenant that succeeded and before any call for
\* the group of that community, and never after a createTenant that failed. A write-back that
\* fails does not stop the run: the run goes on to the group step. After the
\* write-back the run reads nothing from the workbook any more: the id it
\* sends with every caretaker is the one createTenant returned.
C29_WriteBackOnce ==
    \A r \in Runs :
        LET l == log[r]
        IN  /\ CountOp(l, "writeBackTenantId") <= 1
            /\ \A i \in DOMAIN l :
                  l[i].op = "createTenant" =>
                      IF l[i].res = "ok"
                      THEN /\ i < Len(l)
                           /\ l[i + 1].op = "writeBackTenantId"
                           /\ l[i + 1].id = l[i].id
                      ELSE /\ "writeBackTenantId" \notin Ops(l)
                           /\ file.rows = input[r].rows
            /\ \A i \in DOMAIN l :
                  l[i].op = "writeBackTenantId" =>
                      /\ i > 1
                      /\ l[i - 1].op = "createTenant"
                      /\ l[i - 1].res = "ok"
                      /\ \A j \in 1..(i - 1) :
                            /\ l[j].op # "createGroup"
                            /\ l[j].op = "getGroup" => l[j].id # l[i].id
                      /\ \A j \in (i + 1)..Len(l) :
                            /\ l[j].op \notin {"readRecords", "hasProcessedMarker"}
                            /\ l[j].op = "createMember" => l[j].id = l[i - 1].id
                      /\ l[i].res = "error" =>
                            /\ pc[r] # "create_community"
                            /\ pc[r] = "aborted" => Len(l) > i
                            /\ pc[r] \notin {"create_group", "aborted"} =>
                                  /\ i < Len(l)
                                  /\ l[i + 1].op = "getGroup"
                                  /\ l[i + 1].id = l[i].id

\* a run that ended done although the write-back failed: the workbook holds
\* no id, the caretakers were created with the id createTenant returned
C29_Witness ==
    \E r \in Runs :
        /\ pc[r] = "done"
        /\ \E i \in DOMAIN log[r] :
              /\ log[r][i].op = "writeBackTenantId"
              /\ log[r][i].res = "error"
        /\ file.rows # << >>
        /\ \A k \in DOMAIN file.rows : file.rows[k].cid = 0
        /\ \E i \in DOMAIN log[r] :
              /\ log[r][i].op = "createMember"
              /\ log[r][i].res = "ok"
              /\ log[r][i].id = community_id[r]
              /\ community_id[r] # 0

\* C30: nothing is tried twice within one run. createTenant is issued at
\* most once; createMember is issued once for each caretaker the loop has
\* reached and at most once for the admin; and a call that failed is not
\* issued again with the same arguments later in the run (two caretaker
\* rows without an email are two different rows, counted by the loop).
C30_NoRetry ==
    \A r \in Runs :
        LET l == log[r]
            isAdmin(i) == /\ communities[r] # << >>
                          /\ l[i].email = AdminEmail(communities[r][1].name)
            forMembers == {i \in DOMAIN l : l[i].op = "createMember" /\ ~isAdmin(i)}
            forAdmin == {i \in DOMAIN l : l[i].op = "createMember" /\ isAdmin(i)}
        IN  /\ CountOp(l, "createTenant") <= 1
            /\ Cardinality(forMembers) = idx[r]
            /\ idx[r] <= Len(caretakers[r])
            /\ \A k \in DOMAIN caretakers[r] :
                  caretakers[r][k].email # NoEmail =>
                      Cardinality({i \in forMembers :
                                      l[i].email = caretakers[r][k].email}) <= 1
            /\ Cardinality(forAdmin) <= 1
            /\ \A i \in DOMAIN l : \A j \in DOMAIN l :
                  ( /\ i < j
                    /\ l[i].res = "error"
                    /\ ~(l[i].op = "createMember" /\ l[i].email = NoEmail) )
                  => ~( /\ l[j].op = l[i].op
                        /\ l[j].email = l[i].email
                        /\ l[j].id = l[i].id )

\* a run that ended done after the createMember of a caretaker failed and
\* every verification succeeded: one createMember per caretaker, one for the
\* admin
C30_Witness ==
    \E r \in Runs :
        /\ pc[r] = "done"
        /\ Len(caretakers[r]) >= 1
        /\ CountOp(log[r], "createMember") = Len(caretakers[r]) + 1
        /\ CountOp(log[r], "createTenant") = 1
        /\ \E i \in DOMAIN log[r] :
              log[r][i].op = "createMember" /\ log[r][i].res = "error"
        /\ \A i \in DOMAIN log[r] :
              log[r][i].op = "findMember" => log[r][i].res = "ok"

\* C31: only the admin's account is given a verified email and a permanent
\* password. A step that creates or changes the account of a regular
\* caretaker (an email that is not the admin's) leaves it unverified and
\* leaves its password as it was: temporary when the step created the
\* account, untouched when the account existed. In a run that ends done the
\* admin's account is verified and holds the password the operator typed.
C31_OnlyAdminVerified ==
    /\ [](\A r \in Runs :
            pc[r] = "done" =>
                LET e == AdminEmail(communities[r][1].name)
                IN  /\ e \in DOMAIN accounts
                    /\ accounts[e].verified
                    /\ accounts[e].pwd = [state |-> "permanent", value |-> "secret"])
    /\ [][ \A e \in DOMAIN accounts' :
              ( /\ \A r \in Runs :
                      communities[r] # << >> =>
                          e # AdminEmail(communities[r][1].name)
                /\ (e \notin DOMAIN accounts \/ accounts'[e] # accounts[e]) )
              => /\ ~accounts'[e].verified
                 /\ IF e \in DOMAIN accounts
                    THEN accounts'[e].pwd = accounts[e].pwd
                    ELSE accounts'[e].pwd.state = "temporary" ]_vars

\* a run that ended done with one caretaker's account created and another
\* caretaker's existing account updated: the first has a temporary
\* password, the second kept its old one, both are unverified, and the
\* admin's account is verified
C31_Witness ==
    \E r \in Runs :
        /\ pc[r] = "done"
        /\ \E i, j \in DOMAIN log[r] :
              /\ log[r][i].op = "adminUpdateUserAttributes"
              /\ log[r][i].res = "ok"
              /\ log[r][i].email = MemberEmail(1)
              /\ log[r][j].op = "adminCreateUser"
              /\ log[r][j].res = "ok"
              /\ log[r][j].email = MemberEmail(2)
        /\ ~accounts[MemberEmail(1)].verified
        /\ accounts[MemberEmail(1)].pwd.value = "old"
        /\ ~accounts[MemberEmail(2)].verified
        /\ accounts[MemberEmail(2)].pwd.state = "temporary"
        /\ accounts[AdminEmail(communities[r][1].name)].verified

\* C32, as stated: a workbook row without an email stops the run: no account
\* is created for it, and a run that has read such a row does not end done.
C32_NoEmailAborts ==
    \A r \in Runs :
        /\ \A i \in DOMAIN log[r] :
              log[r][i].op \in IdentityOps \ {"initiateAuth", "respondToChallenge",
                                              "getGroup", "createGroup", "listGroups"}
                  => log[r][i].email # NoEmail
        /\ ( /\ "readRecords" \in Ops(log[r])
             /\ \E i \in DOMAIN input[r].rows : input[r].rows[i].email = NoEmail )
           => pc[r] # "done"

C34_AdminEmailDerived ==
    /\ \A n \in NameTexts :
          LET kept == SelectSeq(n, IsAlnum)
              e == AdminEmail(n)
          IN  /\ e.domain = "foresightcares.com"
              /\ e.local = IF kept = << >>
                           THEN <<"c", "o", "m", "m", "u", "n", "i", "t", "y">>
                           ELSE LowerSeq(kept)
              /\ e # NoEmail
              /\ AdminEmail(LowerSeq(n)) = e
              /\ AdminEmail(kept) = e
    /\ \A r \in Runs :
          \A i \in DOMAIN log[r] :
              ( /\ log[r][i].op = "adminCreateUser"
                /\ \A k \in DOMAIN caretakers[r] :
                      caretakers[r][k].email # log[r][i].email )
              => /\ log[r][i].email = AdminEmail(input[r].comms[1].name)
                 /\ \E j \in 1..(i - 1) :
                       /\ log[r][j].op = "adminGetUser"
                       /\ log[r][j].email = log[r][i].email
                       /\ \A k \in 1..j : log[r][k].op # "createTenant"

\* a run that has created the admin's account under the email the guard
\* looked up, derived from a name with an upper-case letter
C34_Witness ==
    \E r \in Runs :
        /\ communities[r] # << >>
        /\ LowerSeq(communities[r][1].name) # communities[r][1].name
        /\ \E i, j \in DOMAIN log[r] :
              /\ j < i
              /\ log[r][j].op = "adminGetUser"
              /\ log[r][j].res = "notfound"
              /\ log[r][i].op = "adminCreateUser"
              /\ log[r][i].res = "ok"
              /\ log[r][i].email = AdminEmail(communities[r][1].name)
              /\ log[r][j].email = log[r][i].email

\* C35: after a run has ended done, a later run on another workbook, without
\* a processed marker, whose community name gives the same admin email is
\* stopped by the check of the accounts, before it creates or changes
\* anything, as long as none of its account lookups failed.
C35_SameAdminEmailStopsLaterRun ==
    ( /\ pc[1] = "done"
      /\ probe # << >>
      /\ pc[2] \notin {"idle", "authed", "check_users"}
      /\ communities[2] # << >>
      /\ AdminEmail(communities[2][1].name) = AdminEmail(communities[1][1].name)
      /\ \A i \in DOMAIN log[2] :
            log[2][i].op = "adminGetUser" => log[2][i].res # "error" )
    => /\ pc[2] = "aborted"
       /\ reason[2] = "users exist"
       /\ exit_code[2] = 1
       /\ \A i \in DOMAIN log[2] : log[2][i].op \notin MutatingOps
       /\ Cardinality(tenants) = 1
       /\ ~CheckExcelAlreadyProcessed(file)

\* a second run, on a workbook without marker whose community has another
\* name and another contact email than the first one's, stopped by the
\* account of the first run's admin
C35_Witness ==
    /\ pc[1] = "done"
    /\ pc[2] = "aborted"
    /\ reason[2] = "users exist"
    /\ communities[2][1].name # communities[1][1].name
    /\ communities[2][1].email # communities[1][1].email
    /\ caretakers[2] # << >>
    /\ \E i \in DOMAIN log[2] :
          /\ log[2][i].op = "adminGetUser"
          /\ log[2][i].res = "ok"
          /\ log[2][i].email = AdminEmail(communities[1][1].name)

\* C36: in the check of the community's group, when communities with the
\* workbook's email are listed and the lookup of each one's group answers
\* 'not found' or fails, the guard is not tripped by them: the groups are
\* listed next, the run stops with 'group exists' only when a description
\* of a listed group matches, and otherwise it goes on; when its
\* createTenant succeeds the data backend holds two communities with the
\* same email.
C36_TenantWithoutGroupPasses ==
    \A r \in Runs :
        LET l == log[r]
            lookups == {i \in DOMAIN l :
                           /\ l[i].op = "getGroup"
                           /\ \A k \in 1..i : l[k].op # "createTenant"}
            listings == {k \in DOMAIN l : l[k].op = "listGroups"}
        IN  ( /\ lookups # {}
              /\ \A i \in lookups : l[i].res \in {"notfound", "error"} )
            => /\ pc[r] # "check_group"
               /\ Cardinality(listings) = 1
               /\ \A k \in listings :
                     /\ \A i \in lookups : i < k
                     /\ reason[r] = "group exists" <=> l[k].res = "exists"
                     /\ l[k].res = "exists" =>
                           \E g \in DOMAIN groups :
                               DescriptionMatches(groups[g],
                                   communities[r][1].email, communities[r][1].name)
               /\ \A k \in DOMAIN l :
                     (l[k].op = "createTenant" /\ l[k].res = "ok") =>
                         Cardinality({t \in tenants :
                             t.email = communities[r][1].email}) >= 2

\* a run that found a community with its email, was told that community has
\* no group, and created a second community with the same email
C36_Witness ==
    \E r \in Runs :
        /\ \E i, k \in DOMAIN log[r] :
              /\ i < k
              /\ log[r][i].op = "getGroup"
              /\ log[r][i].res = "notfound"
              /\ log[r][k].op = "createTenant"
              /\ log[r][k].res = "ok"
        /\ \E t, u \in tenants :
              /\ t.id # u.id
              /\ t.email = u.email
              /\ u.id = community_id[r]

\* C37: in the check of the accounts a lookup that fails is not a hit. Every
\* email is looked up, in order, whatever the lookups before it answered;
\* the run stops with 'users exist' exactly when some lookup found an
\* account; and when none did, failed lookups or not, the run goes on: its
\* next call is the listing of the communities for the group check (a
\* workbook without community has no group to check and is stopped by the
\* validation).
C37_FailedLookupPasses ==
    \A r \in Runs :
        LET l == log[r]
            lookups == {i \in DOMAIN l : l[i].op = "adminGetUser"}
            emails == SelectSeq(EmailsToCheck(communities[r], caretakers[r]),
                                LAMBDA e : e # NoEmail)
        IN  lookups # {}
            => /\ Cardinality(lookups) = Len(emails)
               /\ \A i \in lookups :
                     LET k == Cardinality({j \in lookups : j <= i})
                     IN  /\ l[i].email = emails[k]
                         /\ l[i].res \in {"ok", "notfound", "error"}
               /\ reason[r] = "users exist" <=> \E i \in lookups : l[i].res = "ok"
               /\ (\A i \in lookups : l[i].res # "ok") =>
                     /\ pc[r] # "check_users"
                     /\ \A i \in DOMAIN l :
                           (i \in lookups /\ i + 1 \in DOMAIN l /\ i + 1 \notin lookups)
                           => l[i + 1].op = "listTenants"
                     /\ ( /\ pc[r] \notin {"check_group", "aborted"}
                          /\ communities[r] # << >>
                          /\ communities[r][1].email # NoEmail )
                        => "listTenants" \in Ops(l)

\* a run that went on to create its community after the lookup of an email
\* that has an account failed, and the lookup after it answered 'not found'
C37_Witness ==
    \E r \in Runs :
        \E i, k \in DOMAIN log[r] :
            /\ i + 1 < k
            /\ log[r][i].op = "adminGetUser"
            /\ log[r][i].res = "error"
            /\ log[r][i].email \in DOMAIN accounts
            /\ log[r][i + 1].op = "adminGetUser"
            /\ log[r][i + 1].res = "notfound"
            /\ log[r][k].op = "createTenant"
            /\ log[r][k].res = "ok"
            /\ \A j \in 1..k : log[r][j].op \notin {"adminCreateUser"}

\* C38: when the check of the community's group comes to list the groups of
\* the pool, it is tripped exactly when the listing answers and some group
\* named community-* has a description that contains, letter case apart, the
\* workbook's community name or its email; whose group that is does not
\* matter. Then the run is stopped with 'group exists' before it creates
\* anything. A listing that fails never stops the run, and a group of
\* another name never does.
C38_DescriptionSubstring ==
    \A r \in Runs :
        \A k \in DOMAIN log[r] :
            log[r][k].op = "listGroups" =>
                LET name == LowerSeq(communities[r][1].name)
                    email == LowerSeq(MailText(communities[r][1].email))
                    old == {g \in DOMAIN groups : g[2] = OldTenant.id}
                    expected ==
                        \E g \in old :
                            /\ g[1] = "community-"
                            /\ \E i \in 1..Len(groups[g]) : \E j \in i..Len(groups[g]) :
                                  LowerSeq(SubSeq(groups[g], i, j)) \in {name, email}
                IN  /\ log[r][k].res \in {"ok", "exists", "error"}
                    /\ log[r][k].res = "error" => reason[r] # "group exists"
                    /\ log[r][k].res # "error" =>
                          /\ reason[r] = "group exists" <=> expected
                          /\ log[r][k].res = "exists" <=> expected
                    /\ reason[r] = "group exists" =>
                          /\ pc[r] = "aborted"
                          /\ exit_code[r] = 1
                          /\ k = Len(log[r])
                          /\ \A i \in DOMAIN log[r] : log[r][i].op \notin MutatingOps

\* a run stopped by the description of the group of another community: the
\* workbook's community has another email and a name, in another case, that
\* is only a part of the old community's name
C38_Witness ==
    \E r \in Runs :
        /\ pc[r] = "aborted"
        /\ reason[r] = "group exists"
        /\ communities[r][1].email # OldTenant.email
        /\ communities[r][1].name = <<"b">>
        /\ \A i \in DOMAIN log[r] : log[r][i].op # "getGroup"
        /\ \E i \in DOMAIN log[r] :
              log[r][i].op = "listTenants" /\ log[r][i].res = "ok"
        /\ GroupName(1) \in DOMAIN groups
        /\ groups[GroupName(1)] = GroupDescription(Name1, 1)

\* C39: in a run that ends done the emails registered in the user pool by
\* the run, added to the group included, are the emails of the caretakers
\* whose record was created and the admin's email, no more and no less; each
\* of these accounts exists and is in the group community-<id> of the
\* community the run created, which is the group the run got or created. An
\* account the run created that is not in that group is found only after
\* the run was aborted.
C39_AccountsMatchRecords ==
    \A r \in Runs :
        LET l == log[r]
            g == GroupName(community_id[r])
            upserted == {l[i].email : i \in {j \in DOMAIN l :
                            l[j].op = "adminAddUserToGroup" /\ l[j].res = "ok"}}
            recorded == {l[i].email : i \in {j \in DOMAIN l :
                            l[j].op = "createMember" /\ l[j].res = "ok"}}
        IN  /\ pc[r] = "done" =>
                  LET admin == AdminEmail(communities[r][1].name)
                  IN  /\ upserted = (recorded \ {admin}) \cup {admin}
                      /\ admin \in recorded
                      /\ recorded \ {admin} \subseteq
                            {caretakers[r][k].email : k \in DOMAIN caretakers[r]}
                      /\ Cardinality(recorded \ {admin}) = created_caretakers[r]
                      /\ cognito_group_name[r] = g
                      /\ g \in DOMAIN groups
                      /\ \E t \in tenants : t.id = community_id[r]
                      /\ \A e \in upserted :
                            /\ e \in DOMAIN accounts
                            /\ g \in accounts[e].groups
                      /\ \A i \in DOMAIN l :
                            l[i].op = "adminAddUserToGroup" => l[i].id = community_id[r]
            /\ \A i \in DOMAIN l :
                  ( /\ l[i].op = "adminCreateUser"
                    /\ l[i].res = "ok"
                    /\ g \notin accounts[l[i].email].groups )
                  => pc[r] = "aborted"

\* a run that ended done after the record of one caretaker could not be
\* created and the record of another was: the second has an account in the
\* run's group, the first has no account
C39_Witness ==
    \E r \in Runs :
        /\ pc[r] = "done"
        /\ Len(caretakers[r]) = 2
        /\ created_caretakers[r] = 1
        /\ \E k \in DOMAIN caretakers[r] :
              caretakers[r][k].email \notin DOMAIN accounts
        /\ \E k \in DOMAIN caretakers[r] :
              /\ caretakers[r][k].email \in DOMAIN accounts
              /\ GroupName(community_id[r]) \in
                    accounts[caretakers[r][k].email].groups
        /\ AdminEmail(communities[r][1].name) \in DOMAIN accounts

\* C40: the admin's credentials are written to the workbook at most once in
\* a run, as its last call, after the admin's account was registered and the
\* admin's record was created; a run that was aborted has not attempted it.
\* When the write fails the run still ends done, with exit code 0, and the
\* workbook has no admin sheet; when it succeeds the workbook names the
\* admin's email.
C40_AdminCredentialsWriteBack ==
    \A r \in Runs :
        LET l == log[r]
            writes == {i \in DOMAIN l : l[i].op = "writeBackAdminCredentials"}
        IN  /\ Cardinality(writes) <= 1
            /\ pc[r] = "aborted" => writes = {}
            /\ pc[r] = "done" => writes # {}
            /\ \A i \in writes :
                  LET e == AdminEmail(communities[r][1].name)
                  IN  /\ i = Len(l)
                      /\ l[i].email = e
                      /\ \E j, k \in 1..(i - 1) :
                            /\ j < k
                            /\ l[j].op = "adminAddUserToGroup"
                            /\ l[j].res = "ok"
                            /\ l[j].email = e
                            /\ l[k].op = "createMember"
                            /\ l[k].res = "ok"
                            /\ l[k].email = e
                      /\ pc[r] = "done"
                      /\ exit_code[r] = 0
                      /\ l[i].res \in {"ok", "error"}
                      /\ l[i].res = "error" => file.admin = NoEmail
                      /\ l[i].res = "ok" => file.admin = e

\* a run that ended done although the admin's credentials could not be
\* written: the workbook carries no admin sheet
C40_Witness ==
    \E r \in Runs :
        /\ pc[r] = "done"
        /\ exit_code[r] = 0
        /\ file.admin = NoEmail
        /\ Len(log[r]) > 0
        /\ log[r][Len(log[r])].op = "writeBackAdminCredentials"
        /\ log[r][Len(log[r])].res = "error"
        /\ AdminEmail(communities[r][1].name) \in DOMAIN accounts

====
